---- MODULE Spec2Model ----
(***************************************************************************)
(* Fashion-Finder: the serverless search endpoint (api/search.js).         *)
(*                                                                         *)
(* One invocation of the handler is modelled: the synchronous prefix of    *)
(* the handler (method gate, validation, sanitization, dispatch of one     *)
(* task per valid store) is one step, every upstream answer that settles   *)
(* a store task is one step, and the continuation of                       *)
(* `await Promise.all` that sends the response is one step.  The CORS      *)
(* headers, the log lines and the timestamp of the response are left out.  *)
(*                                                                         *)
(* JavaScript values that may be absent or of several types are tagged     *)
(* records; JavaScript strings that the code takes apart are sequences of  *)
(* one-character strings.                                                  *)
(***************************************************************************)
EXTENDS Integers, Sequences, FiniteSets, TLC

(***************************************************************************)
(* Bounds of the model.                                                    *)
(***************************************************************************)
\* longest `stores` array of a request
MaxStores == 2

(***************************************************************************)
(* JavaScript values.                                                      *)
(***************************************************************************)
Undefined == [t |-> "undefined"]
Null == [t |-> "null"]
Str(s) == [t |-> "string", s |-> s]
Num(n) == [t |-> "number", n |-> n]
Arr(a) == [t |-> "array", a |-> a]

\* ToBoolean: undefined, null, "" and 0 are falsy
Truthy(v) ==
  CASE v.t = "undefined" -> FALSE
    [] v.t = "null" -> FALSE
    [] v.t = "string" -> v.s # <<>>
    [] v.t = "number" -> v.n # 0
    [] OTHER -> TRUE

\* the characters String.prototype.trim and the regex class \s remove
IsSpace(c) == c \in {" ", "\t", "\n", "\r"}

RECURSIVE TrimStart(_)
TrimStart(s) ==
  IF s = <<>> THEN <<>>
  ELSE IF IsSpace(Head(s)) THEN TrimStart(Tail(s)) ELSE s

RECURSIVE TrimEnd(_)
TrimEnd(s) ==
  IF s = <<>> THEN <<>>
  ELSE IF IsSpace(s[Len(s)]) THEN TrimEnd(SubSeq(s, 1, Len(s) - 1)) ELSE s

\* String.prototype.trim
Trim(s) == TrimEnd(TrimStart(s))

\* String.prototype.slice(0, n) and substring(0, n) for n >= 0
Slice0(s, n) == SubSeq(s, 1, IF Len(s) < n THEN Len(s) ELSE n)

\* s.replace(/[...]/g, '') for a character class cls
RECURSIVE RemoveChars(_, _)
RemoveChars(s, cls) ==
  IF s = <<>> THEN <<>>
  ELSE IF Head(s) \in cls THEN RemoveChars(Tail(s), cls)
  ELSE <<Head(s)>> \o RemoveChars(Tail(s), cls)

\* all sequences over S of length at most n
SeqsUpTo(S, n) == UNION {[1..k -> S] : k \in 0..n}

(***************************************************************************)
(* Configuration.                                                          *)
(***************************************************************************)
MAX_RESULTS == 12

\* a property an object literal does not define
NoField == "<absent>"

STORE_CONFIG ==
  [ whitefox      |-> [name |-> "White Fox", domain |-> "www.whitefoxboutique.com", type |-> NoField],
    princesspolly |-> [name |-> "Princess Polly", domain |-> "us.princesspolly.com", type |-> NoField],
    reformation   |-> [name |-> "Reformation", domain |-> "www.thereformation.com", type |-> NoField],
    showpo        |-> [name |-> "Showpo", domain |-> "www.showpo.com", type |-> NoField],
    vici          |-> [name |-> "Vici", domain |-> "www.vicicollection.com", type |-> NoField],
    altardstate   |-> [name |-> "Altar'd State", domain |-> "www.altardstate.com", type |-> NoField],
    francescas    |-> [name |-> "Francesca's", domain |-> "www.francescas.com", type |-> NoField],
    windsor       |-> [name |-> "Windsor", domain |-> "www.windsorstore.com", type |-> NoField],
    asos          |-> [name |-> "ASOS", domain |-> NoField, type |-> "asos"],
    hm            |-> [name |-> "H&M", domain |-> NoField, type |-> "hm"],
    lulus         |-> [name |-> "Lulus", domain |-> NoField, type |-> "lulus"],
    nordstrom     |-> [name |-> "Nordstrom", domain |-> NoField, type |-> "nordstrom"],
    shein         |-> [name |-> "SHEIN", domain |-> NoField, type |-> "shein"] ]

\* the 13 own keys of the table
StoreKeys == DOMAIN STORE_CONFIG

\* STORE_CONFIG is an object literal, so a property read that misses the own
\* keys continues on Object.prototype: these names are found there.  The
\* value is given with the `name`, `domain` and `type` the code reads from it
\* (a function has a `name`, Object.prototype has none).
ObjectPrototype ==
  [ constructor    |-> [name |-> "Object", domain |-> NoField, type |-> NoField],
    toString       |-> [name |-> "toString", domain |-> NoField, type |-> NoField],
    valueOf        |-> [name |-> "valueOf", domain |-> NoField, type |-> NoField],
    hasOwnProperty |-> [name |-> "hasOwnProperty", domain |-> NoField, type |-> NoField],
    __proto__      |-> [name |-> NoField, domain |-> NoField, type |-> NoField] ]

\* the property read STORE_CONFIG[id]
NoConfig == [name |-> NoField, domain |-> NoField, type |-> NoField, found |-> FALSE]
ConfigOf(id) ==
  IF id \in DOMAIN STORE_CONFIG
    THEN [name |-> STORE_CONFIG[id].name, domain |-> STORE_CONFIG[id].domain,
          type |-> STORE_CONFIG[id].type, found |-> TRUE]
  ELSE IF id \in DOMAIN ObjectPrototype
    THEN [name |-> ObjectPrototype[id].name, domain |-> NoField,
          type |-> NoField, found |-> TRUE]
  ELSE NoConfig

(***************************************************************************)
(* Field normalizers and the record-to-Product formatter.                  *)
(***************************************************************************)
UnknownProduct ==
  <<"U", "n", "k", "n", "o", "w", "n", " ", "P", "r", "o", "d", "u", "c", "t">>

\* the default of cleanTitle's maxLength parameter
MaxTitleLength == 120

UpperToLower ==
  [ A |-> "a", B |-> "b", C |-> "c", D |-> "d", E |-> "e", F |-> "f",
    G |-> "g", H |-> "h", I |-> "i", J |-> "j", K |-> "k", L |-> "l",
    M |-> "m", N |-> "n", O |-> "o", P |-> "p", Q |-> "q", R |-> "r",
    S |-> "s", T |-> "t", U |-> "u", V |-> "v", W |-> "w", X |-> "x",
    Y |-> "y", Z |-> "z" ]

\* the case folding of the regex flag i and of toLowerCase
Lower(c) == IF c \in DOMAIN UpperToLower THEN UpperToLower[c] ELSE c

\* s.replace(/[\n\r\t]+/g, ' ').replace(/\s+/g, ' '): every maximal run of
\* whitespace becomes one space
CollapseSpaces(s) ==
  LET StartsRun(i) == ~IsSpace(s[i]) \/ i = 1 \/ ~IsSpace(s[i - 1])
      kept == SelectSeq([i \in 1..Len(s) |-> i], StartsRun)
  IN [k \in 1..Len(kept) |-> IF IsSpace(s[kept[k]]) THEN " " ELSE s[kept[k]]]

\* the alternatives of /^(new|sale|hot|best seller)[:\s-]*/gi
PromoPrefixes ==
  << <<"n", "e", "w">>, <<"s", "a", "l", "e">>, <<"h", "o", "t">>,
     <<"b", "e", "s", "t", " ", "s", "e", "l", "l", "e", "r">> >>

StartsWithFolded(s, p) ==
  /\ Len(s) >= Len(p)
  /\ \A i \in 1..Len(p) : Lower(s[i]) = p[i]

RECURSIVE DropPromoTail(_)
DropPromoTail(s) ==
  IF s = <<>> THEN <<>>
  ELSE IF IsSpace(Head(s)) \/ Head(s) \in {":", "-"} THEN DropPromoTail(Tail(s))
  ELSE s

\* cleaned.replace(/^(new|sale|hot|best seller)[:\s-]*/gi, ''): the pattern is
\* anchored, so at most the one match at the start is removed
StripPromo(s) ==
  IF \E k \in 1..Len(PromoPrefixes) : StartsWithFolded(s, PromoPrefixes[k])
    THEN LET k == CHOOSE j \in 1..Len(PromoPrefixes) :
                    /\ StartsWithFolded(s, PromoPrefixes[j])
                    /\ \A h \in 1..(j - 1) : ~StartsWithFolded(s, PromoPrefixes[h])
         IN DropPromoTail(SubSeq(s, Len(PromoPrefixes[k]) + 1, Len(s)))
  ELSE s

\* cleanTitle that cuts at maxLength and appends the dots to that
cleanTitle_NoRoom(title, maxLength) ==
  IF ~Truthy(title) \/ title.t # "string" THEN UnknownProduct
  ELSE LET cleaned == Trim(StripPromo(CollapseSpaces(Trim(title.s))))
       IN IF Len(cleaned) > maxLength
            THEN Slice0(cleaned, maxLength) \o <<".", ".", ".">>
          ELSE cleaned

\* cleanTitle(title, maxLength): title is a JavaScript value, the result a string
cleanTitle(title, maxLength) ==
  IF ~Truthy(title) \/ title.t # "string" THEN UnknownProduct
  ELSE LET cleaned == Trim(StripPromo(CollapseSpaces(Trim(title.s))))
       IN IF Len(cleaned) > maxLength
            THEN Slice0(cleaned, maxLength - 3) \o <<".", ".", ".">>
          ELSE cleaned

\* s starts with sub at index i
StartsWithAt(s, i, sub) ==
  /\ i + Len(sub) - 1 <= Len(s)
  /\ \A k \in 1..Len(sub) : s[i + k - 1] = sub[k]

\* String.prototype.indexOf, counted from 1; 0 when sub does not occur
IndexOf(s, sub) ==
  IF \E i \in 1..Len(s) : StartsWithAt(s, i, sub)
    THEN CHOOSE i \in 1..Len(s) :
           /\ StartsWithAt(s, i, sub)
           /\ \A j \in 1..(i - 1) : ~StartsWithAt(s, j, sub)
  ELSE 0

\* String.prototype.includes
Includes(s, sub) == IndexOf(s, sub) # 0

\* String.prototype.toLowerCase
LowerStr(s) == [i \in 1..Len(s) |-> Lower(s[i])]

\* s.split(sep)[0]
SplitFirst(s, sep) ==
  IF Includes(s, sep) THEN SubSeq(s, 1, IndexOf(s, sep) - 1) ELSE s

\* s.replace(/w1|w2|.../gi, ''): from left to right, the first alternative
\* that matches at a position is removed and the scan goes on after it
RECURSIVE RemoveWords(_, _)
RemoveWords(s, words) ==
  IF s = <<>> THEN <<>>
  ELSE LET hits == {k \in 1..Len(words) : StartsWithAt(LowerStr(s), 1, words[k])}
       IN IF hits = {} THEN <<Head(s)>> \o RemoveWords(Tail(s), words)
          ELSE LET k == CHOOSE h \in hits : \A j \in hits : h <= j
               IN RemoveWords(SubSeq(s, Len(words[k]) + 1, Len(s)), words)

\* the alternatives of /usd|us\$|aud|gbp|eur|cad/gi
CurrencyCodes ==
  << <<"u", "s", "d">>, <<"u", "s", "$">>, <<"a", "u", "d">>,
     <<"g", "b", "p">>, <<"e", "u", "r">>, <<"c", "a", "d">> >>

\* the class [\$£€]
CurrencySymbols == {"$", "£", "€"}

\* the class \d
Digits == {"0", "1", "2", "3", "4", "5", "6", "7", "8", "9"}

SpaceChars == {" ", "\t", "\n", "\r"}

\* the index after the longest run of characters of cls that starts at i
RECURSIVE RunEnd(_, _, _)
RunEnd(s, i, cls) ==
  IF i <= Len(s) /\ s[i] \in cls THEN RunEnd(s, i + 1, cls) ELSE i

\* /[\$£€]?\s*[\d,]+\.?\d*/ tried at index i: the index after the match, 0
\* when the pattern does not match at i.  Every quantifier is greedy and no
\* shorter choice can rescue a failed attempt, since the classes are disjoint.
PriceMatchEnd(s, i) ==
  LET afterSymbol == IF i <= Len(s) /\ s[i] \in CurrencySymbols THEN i + 1 ELSE i
      afterSpace == RunEnd(s, afterSymbol, SpaceChars)
      afterUnits == RunEnd(s, afterSpace, Digits \cup {","})
      afterPoint == IF afterUnits <= Len(s) /\ s[afterUnits] = "."
                      THEN afterUnits + 1 ELSE afterUnits
  IN IF afterUnits = afterSpace THEN 0 ELSE RunEnd(s, afterPoint, Digits)

\* cleaned.match(/[\$£€]?\s*[\d,]+\.?\d*/): the leftmost match
PriceMatch(s) ==
  IF \E i \in 1..Len(s) : PriceMatchEnd(s, i) # 0
    THEN LET i == CHOOSE j \in 1..Len(s) :
                    /\ PriceMatchEnd(s, j) # 0
                    /\ \A h \in 1..(j - 1) : PriceMatchEnd(s, h) = 0
         IN [found |-> TRUE, text |-> SubSeq(s, i, PriceMatchEnd(s, i) - 1)]
  ELSE [found |-> FALSE, text |-> <<>>]

DigitValue ==
  "0" :> 0 @@ "1" :> 1 @@ "2" :> 2 @@ "3" :> 3 @@ "4" :> 4 @@
  "5" :> 5 @@ "6" :> 6 @@ "7" :> 7 @@ "8" :> 8 @@ "9" :> 9

\* the number a run of digits denotes
RECURSIVE IntValue(_)
IntValue(ds) ==
  IF ds = <<>> THEN 0
  ELSE 10 * IntValue(SubSeq(ds, 1, Len(ds) - 1)) + DigitValue[ds[Len(ds)]]

\* parseFloat reads digits, one point, digits, and stops at what follows: the
\* digits before the point and the digits after it
IntDigits(s) == SubSeq(s, 1, RunEnd(s, 1, Digits) - 1)
FracDigits(s) ==
  LET p == RunEnd(s, 1, Digits)
  IN IF p <= Len(s) /\ s[p] = "." THEN SubSeq(s, p + 1, RunEnd(s, p + 1, Digits) - 1)
     ELSE <<>>

\* parseFloat(s) is NaN
IsNaN(s) == IntDigits(s) = <<>> /\ FracDigits(s) = <<>>

\* parseFloat(s) > 0
IsPositive(s) ==
  \E i \in 1..Len(IntDigits(s) \o FracDigits(s)) : (IntDigits(s) \o FracDigits(s))[i] # "0"

\* the bound of `numVal < 50000`
PriceCeiling == 50000

IsPriceChar(c) == c \in Digits \cup {"."}

FirstOfRange_Last(cleaned) ==
  IF Includes(cleaned, <<" ", "-", " ">>)
    THEN Trim(SubSeq(cleaned, IndexOf(cleaned, <<" ", "-", " ">>) + 3, Len(cleaned)))
  ELSE cleaned

\* if (cleaned.includes(' - ')) cleaned = cleaned.split(' - ')[0].trim()
FirstOfRange(cleaned) ==
  IF Includes(cleaned, <<" ", "-", " ">>)
    THEN Trim(SplitFirst(cleaned, <<" ", "-", " ">>))
  ELSE cleaned

\* if (cleaned.toLowerCase().includes('from'))
\*   cleaned = cleaned.replace(/from/gi, '').trim()
DropFrom(cleaned) ==
  IF Includes(LowerStr(cleaned), <<"f", "r", "o", "m">>)
    THEN Trim(RemoveWords(cleaned, << <<"f", "r", "o", "m">> >>))
  ELSE cleaned

\* the price of a match: the commas go, a missing symbol becomes $
PriceOfMatch(text) ==
  LET bare == RemoveChars(Trim(text), {","})
  IN IF bare # <<>> /\ bare[1] \in CurrencySymbols THEN bare ELSE <<"$">> \o bare

InPriceRange_NoPositive(numeral) ==
  /\ ~IsNaN(numeral)
  /\ IntValue(IntDigits(numeral)) < PriceCeiling

\* numVal > 0 && numVal < 50000, numVal the number the price denotes
InPriceRange(numeral) ==
  /\ ~IsNaN(numeral)
  /\ IsPositive(numeral)
  /\ IntValue(IntDigits(numeral)) < PriceCeiling

\* cleanPrice(priceStr): priceStr is a JavaScript value, the result a string
\* value or null.  Each intermediate value of the function is computed once:
\* it is the one element of the set the next step ranges over.
cleanPrice(priceStr) ==
  IF ~Truthy(priceStr) \/ priceStr.t # "string" THEN Null
  ELSE CHOOSE result \in
         { IF trimmed = <<>> THEN Null
           ELSE CHOOSE r \in
             { IF ~match.found THEN Null
               ELSE CHOOSE q \in
                 { IF InPriceRange(SelectSeq(price, IsPriceChar)) THEN Str(price)
                   ELSE Null :
                   price \in {PriceOfMatch(match.text)} } : TRUE :
               match \in
                 { PriceMatch(cleaned) :
                     cleaned \in
                       { Trim(RemoveWords(noFrom, CurrencyCodes)) :
                           noFrom \in
                             { DropFrom(lowest) :
                                 lowest \in {FirstOfRange(trimmed)} } } } } : TRUE :
           trimmed \in {Trim(priceStr.s)} } : TRUE

\* `${x}` and string concatenation of a value that may be undefined
ToStr(v) ==
  CASE v.t = "string" -> v.s
    [] v.t = "undefined" -> <<"undefined">>
    [] v.t = "null" -> <<"null">>
    [] OTHER -> <<"[object]">>

(* URLs are sequences of pieces, a piece being a stretch of characters the  *)
(* code never looks into: a scheme with its colon, "//", a host, a path, a  *)
(* file extension, a blank.                                                 *)
\* the schemes `new URL` gives an authority to: they need a host
SpecialSchemes == {"https:", "http:", "ftp:"}
Schemes == SpecialSchemes \cup {"data:", "javascript:"}

\* `new URL(s)` does not throw: s starts with a scheme, and a special scheme
\* is followed by a host
IsAbsoluteUrl(s) ==
  /\ s # <<>>
  /\ s[1] \in Schemes
  /\ s[1] \in SpecialSchemes => (Len(s) >= 3 /\ s[2] = "//" /\ ~IsSpace(s[3]))

\* the pieces /placeholder|blank\.gif|1x1|spacer/i finds
PlaceholderMarks == {"placeholder", "blank.gif", "1x1", "spacer"}

PLACEHOLDER_IMAGE == <<"data:", "image/svg+xml,", "%3Csvg...%3C%2Fsvg%3E">>

cleanImageUrl_NoRewrite(url) ==
  IF ~Truthy(url) \/ url.t # "string" THEN Null
  ELSE LET cleaned == Trim(url.s)
       IN IF cleaned # <<>> /\ cleaned[1] = "data:" THEN Null
          ELSE IF \E i \in 1..Len(cleaned) : cleaned[i] \in PlaceholderMarks THEN Null
          ELSE IF IsAbsoluteUrl(cleaned) THEN Str(cleaned)
          ELSE Null

\* cleanImageUrl(url): url is a JavaScript value, the result a string value
\* or null
cleanImageUrl(url) ==
  IF ~Truthy(url) \/ url.t # "string" THEN Null
  ELSE LET trimmed == Trim(url.s)
           cleaned == IF trimmed # <<>> /\ trimmed[1] = "//"
                        THEN <<"https:">> \o trimmed ELSE trimmed
       IN IF cleaned # <<>> /\ cleaned[1] = "data:" THEN Null
          ELSE IF \E i \in 1..Len(cleaned) : cleaned[i] \in PlaceholderMarks THEN Null
          ELSE IF IsAbsoluteUrl(cleaned) THEN Str(cleaned)
          ELSE Null

SeePrice == <<"S", "e", "e", " ", "p", "r", "i", "c", "e">>

\* a formatter without the raw price between cleanPrice and the sentinel
formatProduct_EitherMissing(data, storeName, storeId) ==
  IF ~Truthy(data.title) \/ data.link = <<>> THEN Null
  ELSE [ t |-> "product",
         store |-> storeId,
         storeName |-> storeName,
         title |-> cleanTitle(data.title, MaxTitleLength),
         price |-> Str(SeePrice),
         image |-> PLACEHOLDER_IMAGE,
         link |-> data.link ]

formatProduct_NoRawPrice(data, storeName, storeId) ==
  IF ~Truthy(data.title) /\ data.link = <<>> THEN Null
  ELSE [ t |-> "product",
         store |-> storeId,
         storeName |-> storeName,
         title |-> IF cleanTitle(data.title, MaxTitleLength) # <<>>
                     THEN cleanTitle(data.title, MaxTitleLength)
                   ELSE UnknownProduct,
         price |-> IF Truthy(cleanPrice(data.price)) THEN cleanPrice(data.price)
                   ELSE Str(SeePrice),
         image |-> IF Truthy(cleanImageUrl(data.image)) THEN cleanImageUrl(data.image).s
                   ELSE PLACEHOLDER_IMAGE,
         link |-> IF data.link # <<>> THEN data.link ELSE <<"#">> ]

\* formatProduct(data, storeName, storeId): data.title, data.price and
\* data.image are JavaScript values, data.link is a string; the result is a
\* Product or null.  The price of the Product is a JavaScript value, its other
\* fields are strings.  The id of the Product is generateProductId's.
formatProduct(data, storeName, storeId) ==
  IF ~Truthy(data.title) /\ data.link = <<>> THEN Null
  ELSE [ t |-> "product",
         store |-> storeId,
         storeName |-> storeName,
         title |-> IF cleanTitle(data.title, MaxTitleLength) # <<>>
                     THEN cleanTitle(data.title, MaxTitleLength)
                   ELSE UnknownProduct,
         price |-> IF Truthy(cleanPrice(data.price)) THEN cleanPrice(data.price)
                   ELSE IF Truthy(data.price) THEN data.price
                   ELSE Str(SeePrice),
         image |-> IF Truthy(cleanImageUrl(data.image)) THEN cleanImageUrl(data.image).s
                   ELSE PLACEHOLDER_IMAGE,
         link |-> IF data.link # <<>> THEN data.link ELSE <<"#">> ]

IsValidProduct(p) ==
  /\ p.t # "null"
  /\ p.title # <<>>
  /\ p.title # UnknownProduct
  /\ p.link # <<>>
  /\ p.link # <<"#">>

IsNotNull(p) == p.t # "null"

\* a filter that drops the nulls only
filterValidProducts_NullsOnly(products) == SelectSeq(products, IsNotNull)

filterValidProducts(products) == SelectSeq(products, IsValidProduct)

(***************************************************************************)
(* The upstream sources: what one outbound request can come back with.     *)
(***************************************************************************)
\* an item of an upstream listing: `title` stands for the field the adapter
\* reads the title from, `url` for the field it reads the link from
GoodItem ==
  [t |-> "object", title |-> Str(<<"N", "e", "w", " ", "T", "o", "p">>),
   url |-> Str(<<"/p1">>)]
UntitledItem == [t |-> "object", title |-> Undefined, url |-> Str(<<"/p1">>)]

\* the listings an upstream answers with; Null is a null entry of the list
Payloads == { <<>>, <<Null>>, <<UntitledItem, GoodItem>> }

NetworkError(code) == [kind |-> "network", code |-> code]
Unparseable == [shape |-> "unparseable"]
Listing(items) == [shape |-> "items", items |-> items]
HttpResponse(status, body) == [kind |-> "response", status |-> status, body |-> body]

\* timeout, connection refused, HTTP 404, HTTP 500, 200 with a body that is
\* not the expected JSON, 200 with a listing
UpstreamOutcomes ==
  {NetworkError("ECONNABORTED"), NetworkError("ECONNREFUSED")}
    \cup {HttpResponse(st, Unparseable) : st \in {404, 500, 200}}
    \cup {HttpResponse(200, Listing(items)) : items \in Payloads}

IsTransportFailure(o) ==
  \/ o.kind = "network"
  \/ (o.kind = "response" /\ o.status >= 400)

\* the completion of a try block or of a call: a value or a thrown error
Thrown(m) == [threw |-> TRUE, message |-> m, value |-> <<>>]
Returned(v) == [threw |-> FALSE, message |-> <<>>, value |-> v]

\* axios.get with a timeout and validateStatus: (s) => s < 500
axiosGet(o) ==
  IF o.kind = "network" THEN Thrown(<<o.code>>)
  ELSE IF ~(o.status < 500)
    THEN Thrown(<<"Request failed with status code ", ToString(o.status)>>)
  ELSE Returned(o)

fetchJSON(o) ==
  LET response == axiosGet(o)
  IN IF response.threw THEN response
     ELSE IF response.value.status >= 400
       THEN Thrown(<<"HTTP ", ToString(response.value.status)>>)
     ELSE IF response.value.body.shape = "unparseable"
       THEN Thrown(<<"Unexpected token in JSON">>)
     ELSE Returned(response.value.body.items)

\* fetchHTML returns the loaded page; the value is the list of items the
\* adapter can extract from it (none from a page without the expected data)
fetchHTML(o) ==
  LET response == axiosGet(o)
  IN IF response.threw THEN response
     ELSE IF response.value.status >= 400
       THEN Thrown(<<"HTTP ", ToString(response.value.status)>>)
     ELSE IF response.value.body.shape = "unparseable"
       THEN Returned(<<>>)
     ELSE Returned(response.value.body.items)

(***************************************************************************)
(* Source adapters.  Each returns the settlement of its promise.           *)
(***************************************************************************)
Fulfilled(v) == [state |-> "fulfilled", value |-> v, message |-> <<>>]
Rejected(m) == [state |-> "rejected", value |-> <<>>, message |-> m]

\* the items a `for (const item of items)` loop inside a try reaches before a
\* null item makes the body throw
RECURSIVE UntilNull(_)
UntilNull(items) ==
  IF items = <<>> THEN <<>>
  ELSE IF Head(items).t = "null" THEN <<>>
  ELSE <<Head(items)>> \o UntilNull(Tail(items))

HasNull(items) == \E i \in 1..Len(items) : items[i].t = "null"

\* item.f of an upstream item: undefined when the item has no such field
ItemField(item, f) == IF f \in DOMAIN item THEN item[f] ELSE Undefined

\* v || ''
OrEmpty(v) == IF Truthy(v) THEN v ELSE Str(<<>>)

DigitChars == <<"0", "1", "2", "3", "4", "5", "6", "7", "8", "9">>

\* String(n) of a natural number n
RECURSIVE NatToDigits(_)
NatToDigits(n) ==
  IF n < 10 THEN <<DigitChars[n + 1]>>
  ELSE NatToDigits(n \div 10) \o <<DigitChars[(n % 10) + 1]>>

\* String(rawPrice): a number prints as its digits, a string is itself
StringOf(v) ==
  CASE v.t = "string" -> v.s
    [] v.t = "number" -> IF v.n < 0 THEN <<"-">> \o NatToDigits(0 - v.n)
                         ELSE NatToDigits(v.n)
    [] OTHER -> ToStr(v)

\* parseFloat(s): leading blanks are skipped, then a sign, digits, a point
\* and digits are read; NaN when no digit is read
ParseFloat(s) ==
  LET t == TrimStart(s)
      neg == t # <<>> /\ t[1] = "-"
      u == IF t # <<>> /\ t[1] \in {"-", "+"} THEN Tail(t) ELSE t
  IN [nan |-> IsNaN(u), neg |-> neg, int |-> IntDigits(u), frac |-> FracDigits(u)]

\* the first two decimals of a fraction as a number of hundredths, the third
\* decimal rounding it
FracHundredths(frac) ==
  LET padded == frac \o <<"0", "0", "0">>
  IN IntValue(SubSeq(padded, 1, 2)) + (IF DigitValue[padded[3]] >= 5 THEN 1 ELSE 0)

\* h hundredths printed as toFixed(2) prints them
ToFixed2(h) ==
  NatToDigits(h \div 100) \o <<".", DigitChars[((h % 100) \div 10) + 1],
                                DigitChars[(h % 10) + 1]>>

\* the bound of `numPrice > 100`
CentsThreshold == 100

\* the isCents test whose comparison is >=
IsCents_AtLeast(numPrice, priceStr) ==
  /\ \A i \in 1..Len(numPrice.frac) : numPrice.frac[i] = "0"
  /\ IntValue(numPrice.int) >= CentsThreshold
  /\ ~Includes(priceStr, <<".">>)

\* Number.isInteger(numPrice) && numPrice > 100 && !priceStr.includes('.')
IsCents(numPrice, priceStr) ==
  /\ \A i \in 1..Len(numPrice.frac) : numPrice.frac[i] = "0"
  /\ IntValue(numPrice.int) > CentsThreshold
  /\ ~Includes(priceStr, <<".">>)

\* scrapeShopifyStore: the price it hands to formatProduct for the item p
shopifyPrice(p) ==
  LET rawPrice == ItemField(p, "price")
      priceStr == StringOf(rawPrice)
      numPrice == ParseFloat(priceStr)
  IN IF rawPrice.t \in {"null", "undefined"} THEN SeePrice
     ELSE IF numPrice.nan \/ numPrice.neg \/ ~IsPositive(numPrice.int \o <<".">> \o numPrice.frac)
       THEN SeePrice
     ELSE IF IsCents(numPrice, priceStr)
       THEN <<"$">> \o ToFixed2(IntValue(numPrice.int))
     ELSE <<"$">> \o ToFixed2(100 * IntValue(numPrice.int) + FracHundredths(numPrice.frac))

\* the file extensions and the size suffix of
\* /(_\d+x\d+)?\.(jpg|png|webp)(\?.*)?$/
ImageExtensions == {".jpg", ".png", ".webp"}
SizeSuffixes == {"_100x100"}

\* scrapeShopifyStore: the image it hands to formatProduct for the item p
shopifyImage(p) ==
  LET raw == OrEmpty(ItemField(p, "image")).s
      image == IF raw # <<>> /\ raw[1] \notin {"http:", "https:"}
                 THEN <<"https:">> \o raw ELSE raw
      n == Len(image)
  IN IF n >= 1 /\ image[n] \in ImageExtensions
       THEN (IF n >= 2 /\ image[n - 1] \in SizeSuffixes
               THEN SubSeq(image, 1, n - 2) ELSE SubSeq(image, 1, n - 1))
            \o <<"_600x", image[n]>>
     ELSE image

\* scrapeShopifyStore, the try block
shopifyTry(query, storeId, o) ==
  LET config == ConfigOf(storeId)
      baseUrl == <<"https://", config.domain>>
      data == fetchJSON(o)
  IN IF data.threw THEN data
     ELSE LET products == Slice0(data.value, MAX_RESULTS)
          IN IF HasNull(products) THEN Thrown(<<"TypeError">>)
             ELSE Returned(filterValidProducts(
                    [i \in 1..Len(products) |->
                      formatProduct([title |-> products[i].title,
                                     price |-> Str(shopifyPrice(products[i])),
                                     image |-> Str(shopifyImage(products[i])),
                                     link |-> baseUrl \o ToStr(products[i].url)],
                                    config.name, storeId)]))

scrapeShopifyStore(query, storeId, o) ==
  IF ~ConfigOf(storeId).found \/ ConfigOf(storeId).domain = NoField
    THEN Fulfilled(<<>>)
  ELSE LET r == shopifyTry(query, storeId, o)
       IN IF r.threw THEN Fulfilled(<<>>) ELSE Fulfilled(r.value)

UndefinedUndefined ==
  <<"u", "n", "d", "e", "f", "i", "n", "e", "d", " ",
    "u", "n", "d", "e", "f", "i", "n", "e", "d">>

\* scrapeASOS: imageBase ? `https://${imageBase.replace(/^\/\//, '')}` : ''
asosImage(p) ==
  LET imageBase == OrEmpty(ItemField(p, "image")).s
  IN IF imageBase = <<>> THEN Str(<<>>)
     ELSE Str(<<"https:", "//">> \o
              (IF imageBase[1] = "//" THEN Tail(imageBase) ELSE imageBase))

\* scrapeASOS, the try block
asosTry(query, o) ==
  LET data == fetchJSON(o)
  IN IF data.threw THEN data
     ELSE LET products == Slice0(data.value, MAX_RESULTS)
          IN IF HasNull(products) THEN Thrown(<<"TypeError">>)
             ELSE Returned(filterValidProducts(
                    [i \in 1..Len(products) |->
                      formatProduct(
                        [title |-> IF Truthy(products[i].title) THEN products[i].title
                                   ELSE Str(UndefinedUndefined),
                         price |-> IF Truthy(ItemField(products[i], "price"))
                                     THEN ItemField(products[i], "price")
                                   ELSE Str(<<"$">>),
                         image |-> asosImage(products[i]),
                         link |-> <<"https://www.asos.com/">> \o
                                    (IF Truthy(products[i].url) THEN products[i].url.s
                                     ELSE <<"us/prd/", "undefined">>)],
                        "ASOS", "asos")]))

scrapeASOS(query, o) ==
  LET r == asosTry(query, o)
  IN IF r.threw THEN Fulfilled(<<>>) ELSE Fulfilled(r.value)

\* scrapeHM, the try block: the items of the script are pushed until one
\* throws or MAX_RESULTS are pushed
hmTry(query, o) ==
  LET page == fetchHTML(o)
  IN IF page.threw THEN page
     ELSE LET items == Slice0(UntilNull(page.value), MAX_RESULTS)
          IN Returned(filterValidProducts(
               [i \in 1..Len(items) |->
                 formatProduct(
                   [title |-> items[i].title,
                    price |-> ItemField(items[i], "price"),
                    image |-> ItemField(items[i], "image"),
                    link |-> IF Truthy(items[i].url)
                               THEN <<"https://www2.hm.com">> \o items[i].url.s
                             ELSE <<>>],
                   "H&M", "hm")]))

\* scrapeHM whose catch rethrows
scrapeHM_NoCatch(query, o) ==
  LET r == hmTry(query, o)
  IN IF r.threw THEN Rejected(r.message) ELSE Fulfilled(r.value)

scrapeHM(query, o) ==
  LET r == hmTry(query, o)
  IN IF r.threw THEN Fulfilled(<<>>) ELSE Fulfilled(r.value)

\* scrapeLulus: the src of the card's img, a leading // completed to https://
lulusImage(el) ==
  LET image == OrEmpty(ItemField(el, "image")).s
  IN IF image # <<>> /\ image[1] = "//" THEN Str(<<"https:">> \o image)
     ELSE Str(image)

\* a product card of the page that has both a title and a link
IsLulusCard(el) == el.t # "null" /\ Truthy(el.title) /\ Truthy(el.url)

\* scrapeLulus, the try block: the first MAX_RESULTS matches of the selector
\* are read, and a card is kept when it has a title and a link (a Null item
\* is a card with neither)
lulusTry(query, o) ==
  LET page == fetchHTML(o)
  IN IF page.threw THEN page
     ELSE LET cards == SelectSeq(Slice0(page.value, MAX_RESULTS), IsLulusCard)
          IN Returned(filterValidProducts(
               [i \in 1..Len(cards) |->
                 formatProduct(
                   [title |-> Str(Trim(cards[i].title.s)),
                    price |-> Str(Trim(OrEmpty(ItemField(cards[i], "price")).s)),
                    image |-> lulusImage(cards[i]),
                    link |-> <<"https://www.lulus.com">> \o cards[i].url.s],
                   "Lulus", "lulus")]))

scrapeLulus(query, o) ==
  LET r == lulusTry(query, o)
  IN IF r.threw THEN Fulfilled(<<>>) ELSE Fulfilled(r.value)

\* An upstream item that sits under an integer-like key of a JSON object has
\* that key as its `key`; an item of an array, or under any other name, has
\* no `key`.
HasIntegerKey(item) == item.t # "null" /\ "key" \in DOMAIN item
HasOtherKey(item) == ~HasIntegerKey(item)

RECURSIVE SortByKey(_)
SortByKey(items) ==
  IF items = <<>> THEN <<>>
  ELSE LET m == CHOOSE i \in 1..Len(items) :
                  \A j \in 1..Len(items) : items[i].key <= items[j].key
       IN <<items[m]>> \o
          SortByKey(SubSeq(items, 1, m - 1) \o SubSeq(items, m + 1, Len(items)))

\* Object.values(searchResults) over the items in the order the JSON text
\* holds them: the values under integer-like keys in ascending key order,
\* then the others in the order of the text
ObjectValues(items) ==
  SortByKey(SelectSeq(items, HasIntegerKey)) \o SelectSeq(items, HasOtherKey)

\* scrapeNordstrom, the try block
nordstromTry(query, o) ==
  LET page == fetchHTML(o)
  IN IF page.threw THEN page
     ELSE LET items == Slice0(UntilNull(ObjectValues(page.value)), MAX_RESULTS)
          IN Returned(filterValidProducts(
               [i \in 1..Len(items) |->
                 formatProduct(
                   [title |-> Str(Trim(<<" ">> \o
                                (IF Truthy(items[i].title) THEN items[i].title.s
                                 ELSE <<>>))),
                    price |-> IF Truthy(ItemField(items[i], "price"))
                                THEN ItemField(items[i], "price")
                              ELSE Str(<<"$">>),
                    image |-> OrEmpty(ItemField(items[i], "image")),
                    link |-> IF Truthy(items[i].url)
                               THEN <<"https://www.nordstrom.com">> \o items[i].url.s
                             ELSE <<"https://www.nordstrom.com/s/">>],
                   "Nordstrom", "nordstrom")]))

scrapeNordstrom(query, o) ==
  LET r == nordstromTry(query, o)
  IN IF r.threw THEN Fulfilled(<<>>) ELSE Fulfilled(r.value)

\* scrapeShein, the try block
sheinTry(query, o) ==
  LET page == fetchHTML(o)
  IN IF page.threw THEN page
     ELSE LET items == Slice0(UntilNull(page.value), MAX_RESULTS)
          IN Returned(filterValidProducts(
               [i \in 1..Len(items) |->
                 formatProduct(
                   [title |-> items[i].title,
                    price |-> OrEmpty(ItemField(items[i], "price")),
                    image |-> OrEmpty(ItemField(items[i], "image")),
                    link |-> IF Truthy(items[i].url)
                               THEN <<"https://us.shein.com/">> \o items[i].url.s
                                      \o <<"-p-", "undefined", ".html">>
                             ELSE <<"https://us.shein.com/p-", ".html">>],
                   "SHEIN", "shein")]))

scrapeShein(query, o) ==
  LET r == sheinTry(query, o)
  IN IF r.threw THEN Fulfilled(<<>>) ELSE Fulfilled(r.value)

(***************************************************************************)
(* The router.                                                             *)
(***************************************************************************)
\* the adapter searchStore hands the store to, "none" when it returns [] itself
AdapterOf(storeId) ==
  LET config == ConfigOf(storeId)
  IN IF ~config.found THEN "none"
     ELSE IF config.domain # NoField THEN "scrapeShopifyStore"
     ELSE CASE config.type = "asos" -> "scrapeASOS"
            [] config.type = "hm" -> "scrapeHM"
            [] config.type = "lulus" -> "scrapeLulus"
            [] config.type = "nordstrom" -> "scrapeNordstrom"
            [] config.type = "shein" -> "scrapeShein"
            [] OTHER -> "none"

\* searchStore(storeId, query), given what the adapter's outbound request
\* comes back with
searchStore(storeId, query, o) ==
  CASE AdapterOf(storeId) = "scrapeShopifyStore" -> scrapeShopifyStore(query, storeId, o)
    [] AdapterOf(storeId) = "scrapeASOS" -> scrapeASOS(query, o)
    [] AdapterOf(storeId) = "scrapeHM" -> scrapeHM(query, o)
    [] AdapterOf(storeId) = "scrapeLulus" -> scrapeLulus(query, o)
    [] AdapterOf(storeId) = "scrapeNordstrom" -> scrapeNordstrom(query, o)
    [] AdapterOf(storeId) = "scrapeShein" -> scrapeShein(query, o)
    [] OTHER -> Fulfilled(<<>>)

(***************************************************************************)
(* The request handler.                                                    *)
(***************************************************************************)
\* MethodGate without the check for methods other than POST
MethodGate_No405(method) ==
  IF method = "OPTIONS" THEN "preflight" ELSE "post"

\* the method checks at the top of the handler
MethodGate(method) ==
  IF method = "OPTIONS" THEN "preflight"
  ELSE IF method # "POST" THEN "not_allowed"
  ELSE "post"

\* a property of req.body read by destructuring; a primitive body has none
BodyField(body, f) == IF body.t = "object" THEN body[f] ELSE Undefined

\* QueryInvalid testing query.length instead of query.trim().length
QueryInvalid_NoTrim(query) ==
  \/ ~Truthy(query)
  \/ query.t # "string"
  \/ Len(query.s) = 0

\* !query || typeof query !== 'string' || query.trim().length === 0
QueryInvalid(query) ==
  \/ ~Truthy(query)
  \/ query.t # "string"
  \/ Len(Trim(query.s)) = 0

\* !stores || !Array.isArray(stores) || stores.length === 0
StoresInvalid(stores) ==
  \/ ~Truthy(stores)
  \/ stores.t # "array"
  \/ Len(stores.a) = 0

\* the length query.slice(0, 200) cuts to
QueryMaxLength == 200

\* query.trim().replace(/[<>{}]/g, '').slice(0, 200)
SanitizeQuery(query) ==
  Slice0(RemoveChars(Trim(query.s), {"<", ">", "{", "}"}), QueryMaxLength)

\* id => STORE_CONFIG[id]: every value the lookup finds is an object or a
\* function, so it is truthy
IsConfigured(id) == ConfigOf(id).found

\* stores.filter(id => STORE_CONFIG[id])
ValidStores(stores) == SelectSeq(stores, IsConfigured)

\* ThenCatch whose catch handler reports no error
ThenCatch_NullError(storeId, settlement) ==
  IF settlement.state = "fulfilled"
    THEN Fulfilled([storeId |-> storeId, results |-> settlement.value, error |-> Null])
  ELSE Fulfilled([storeId |-> storeId, results |-> <<>>, error |-> Null])

\* ThenCatch without the catch: a rejection of the task passes through
ThenCatch_NoCatch(storeId, settlement) ==
  IF settlement.state = "fulfilled"
    THEN Fulfilled([storeId |-> storeId, results |-> settlement.value, error |-> Null])
  ELSE Rejected(settlement.message)

\* searchStore(...).then(results => ...).catch(error => ...): the promise the
\* handler waits on, given the settlement of the store task
ThenCatch(storeId, settlement) ==
  IF settlement.state = "fulfilled"
    THEN Fulfilled([storeId |-> storeId, results |-> settlement.value, error |-> Null])
  ELSE Fulfilled([storeId |-> storeId, results |-> <<>>, error |-> Str(settlement.message)])

\* a promise of searchPromises before its task settles; the value slot is
\* read only once the promise is fulfilled
PendingPromise(storeId) ==
  [ state |-> "pending", message |-> <<>>,
    value |-> [storeId |-> storeId, results |-> <<>>, error |-> Null] ]

\* Promise.all taken for Promise.race: settled with the first promise
PromiseAll_Race(promises) ==
  IF \E i \in 1..Len(promises) : promises[i].state = "rejected" THEN "rejected"
  ELSE IF Len(promises) = 0 \/ \E i \in 1..Len(promises) : promises[i].state = "fulfilled"
    THEN "fulfilled"
  ELSE "pending"

\* Promise.all: rejected as soon as one promise is rejected, fulfilled when
\* all are, pending otherwise
PromiseAll(promises) ==
  IF \E i \in 1..Len(promises) : promises[i].state = "rejected" THEN "rejected"
  ELSE IF \A i \in 1..Len(promises) : promises[i].state = "fulfilled" THEN "fulfilled"
  ELSE "pending"

StoreResult_IdAsName(r) ==
  [ id |-> r.storeId,
    name |-> r.storeId,
    results |-> r.results,
    error |-> r.error,
    count |-> Len(r.results) ]

\* one element of response.stores
StoreResult(r) ==
  [ id |-> r.storeId,
    name |-> IF ConfigOf(r.storeId).name # NoField THEN ConfigOf(r.storeId).name
             ELSE r.storeId,
    results |-> r.results,
    error |-> r.error,
    count |-> Len(r.results) ]

\* the response object (the timestamp is not modelled)
SearchResponse(query, category, storeResults) ==
  [ query |-> query,
    category |-> IF Truthy(category) THEN category ELSE Null,
    stores |-> [i \in 1..Len(storeResults) |-> StoreResult(storeResults[i].value)] ]

NoOutcome == [kind |-> "none"]
NoResponse == [status |-> 0, sent |-> "none", body |-> [none |-> TRUE]]
EndResponse(status) == [status |-> status, sent |-> "end", body |-> [none |-> TRUE]]
JsonResponse(status, body) == [status |-> status, sent |-> "json", body |-> body]

\* the task searchStore(storeId, query) at dispatch: a store without an
\* adapter has returned [] already, the others wait for their upstream
StartTask(storeId) ==
  IF AdapterOf(storeId) = "none"
    THEN [storeId |-> storeId, adapter |-> "none", upstream |-> NoOutcome,
          state |-> "fulfilled", value |-> <<>>, message |-> <<>>]
  ELSE [storeId |-> storeId, adapter |-> AdapterOf(storeId), upstream |-> NoOutcome,
        state |-> "pending", value |-> <<>>, message |-> <<>>]

HasAdapter_Tier1Only(task) == task.adapter = "scrapeShopifyStore"

HasAdapter(task) == task.adapter # "none"

(***************************************************************************)
(* The inputs of one invocation.                                           *)
(***************************************************************************)
Methods == {"OPTIONS", "POST", "GET", "PUT"}

QueryInputs ==
  { Undefined, Null, Num(5), Str(<<>>), Str(<<" ">>), Str(<<" ", "\t">>),
    Str(<<"a">>), Str(<<" ", "<", " ", "a">>) }

\* store ids a request may name: one Tier 1 store, the five Tier 2 stores, an
\* id that is no store and a property name of Object.prototype
RequestIds ==
  {"whitefox", "asos", "hm", "lulus", "nordstrom", "shein", "zara", "constructor"}

StoresInputs ==
  {Undefined, Null, Str(<<"h", "m">>)} \cup {Arr(a) : a \in SeqsUpTo(RequestIds, MaxStores)}

CategoryInputs == {Str(<<"t", "o", "p", "s">>)}

(***************************************************************************)
(* The frontend as a source of requests (App.tsx).                         *)
(***************************************************************************)
\* the ids of DEFAULT_STORES, the stores the interface lists
DEFAULT_STORES ==
  <<"whitefox", "princesspolly", "reformation", "showpo", "vici", "francescas",
    "shein", "hm", "asos", "altardstate", "windsor", "lulus", "nordstrom">>

\* the initial value of selectedStores when localStorage holds none
DefaultSelectedStores == <<"princesspolly", "revolve", "lulus", "zara">>

\* handleToggleStore(storeId) applied to the selection prev
handleToggleStore(prev, storeId) ==
  IF \E i \in 1..Len(prev) : prev[i] = storeId
    THEN LET Other(id) == id # storeId IN SelectSeq(prev, Other)
  ELSE Append(prev, storeId)

\* handleSearch(query): the body of the POST it sends, or undefined when it
\* returns without sending
handleSearch(query, selectedStores, selectedCategory) ==
  IF Trim(query) = <<>> \/ Len(selectedStores) = 0 THEN Undefined
  ELSE [ t |-> "object",
         query |-> Str(Trim(query)),
         stores |-> Arr(selectedStores),
         category |-> IF selectedCategory # <<"a", "l", "l">>
                        THEN Str(selectedCategory) ELSE Null ]

\* the selections of a first load: the default, and the default after one
\* store of the list has been toggled
FrontendSelections ==
  {DefaultSelectedStores}
    \cup {handleToggleStore(DefaultSelectedStores, id) : id \in {"lulus", "hm"}}

\* what the search box holds
FrontendQueries == {<<>>, <<" ">>, <<"a", " ">>}

FrontendBodies ==
  {handleSearch(q, sel, <<"a", "l", "l">>) :
     q \in FrontendQueries, sel \in FrontendSelections}

\* queries made of bracket characters only, sent for a single store
BracketQueries == {Str(<<"<", ">">>), Str(<<" ", "{", "}", " ">>)}

Bodies ==
  {Undefined, Null, Str(<<"x">>)}
    \cup {[t |-> "object", query |-> q, stores |-> st, category |-> c] :
            q \in QueryInputs, st \in StoresInputs, c \in CategoryInputs}
    \cup {[t |-> "object", query |-> q, stores |-> Arr(<<id>>), category |-> c] :
            q \in BracketQueries, id \in RequestIds, c \in CategoryInputs}
    \cup FrontendBodies

(***************************************************************************)
(* State.                                                                  *)
(***************************************************************************)
VARIABLES
  pc,              \* "idle", "awaiting" (at await Promise.all), "done", "threw"
  req,             \* the request of the invocation
  sanitizedQuery,  \* the handler's sanitizedQuery
  tasks,           \* the promises searchStore returned, in validStores order
  searchPromises,  \* the handler's searchPromises
  res,             \* what the handler has sent
  invoked,         \* the adapter calls made: adapter, storeId, query
  outbound,        \* the number of outbound requests issued
  call,            \* one application of a function of the module: its
                   \* argument, and its result once it has returned
  clock,           \* what Date.now() returns
  created,         \* the ids generateProductId has returned in this process
  favorites,       \* a tab's favoriteProducts state (useFavorites)
  lastToggle,      \* the last toggleFavorite: its product, isFavorite before it
  storage,         \* localStorage: the item stored under the key, or null
  storedValue,     \* useLocalStorage's storedValue in each tab
  events,          \* the storage events queued for each tab, oldest first
  writes           \* the number of setValue calls made so far

vars ==
  <<pc, req, sanitizedQuery, tasks, searchPromises, res, invoked, outbound,
    call, clock, created, favorites, lastToggle, storage, storedValue, events,
    writes>>

\* the state of the browser, which the server does not touch
browserVars == <<favorites, lastToggle, storage, storedValue, events, writes>>

(***************************************************************************)
(* The favorites of the frontend (hooks/useFavorites.ts).                  *)
(***************************************************************************)
LowerLetters ==
  <<"a", "b", "c", "d", "e", "f", "g", "h", "i", "j", "k", "l", "m",
    "n", "o", "p", "q", "r", "s", "t", "u", "v", "w", "x", "y", "z">>

UpperLetters ==
  <<"A", "B", "C", "D", "E", "F", "G", "H", "I", "J", "K", "L", "M",
    "N", "O", "P", "Q", "R", "S", "T", "U", "V", "W", "X", "Y", "Z">>

PunctuationCodes ==
  [c \in {" ", "#", "-", ".", "/", ":", "=", "?", "_"} |->
     CASE c = " " -> 32 [] c = "#" -> 35 [] c = "-" -> 45 [] c = "." -> 46
       [] c = "/" -> 47 [] c = ":" -> 58 [] c = "=" -> 61 [] c = "?" -> 63
       [] c = "_" -> 95]

PositionIn(seq, c) == CHOOSE i \in 1..Len(seq) : seq[i] = c

\* String.prototype.charCodeAt, for the characters of the links
CharCode(c) ==
  IF c \in DOMAIN PunctuationCodes THEN PunctuationCodes[c]
  ELSE IF \E i \in 1..Len(DigitChars) : DigitChars[i] = c
    THEN 47 + PositionIn(DigitChars, c)
  ELSE IF \E i \in 1..Len(UpperLetters) : UpperLetters[i] = c
    THEN 64 + PositionIn(UpperLetters, c)
  ELSE 96 + PositionIn(LowerLetters, c)

\* a 32-bit hash is kept as two 16-bit halves
HalfWord == 65536
Djb2Seed == [hi |-> 0, lo |-> 5381]

\* hash = ((hash << 5) + hash) + code; hash = hash & hash: times 33 plus the
\* code, cut to 32 bits
Djb2Step(hash, code) ==
  [ hi |-> (hash.hi * 33 + ((hash.lo * 33 + code) \div HalfWord)) % HalfWord,
    lo |-> (hash.lo * 33 + code) % HalfWord ]

RECURSIVE Djb2(_)
Djb2(s) ==
  IF s = <<>> THEN Djb2Seed
  ELSE Djb2Step(Djb2(SubSeq(s, 1, Len(s) - 1)), CharCode(s[Len(s)]))

\* the index of the first character of s at or after i that is in stops,
\* Len(s) + 1 when there is none
RECURSIVE FindFirst(_, _, _)
FindFirst(s, i, stops) ==
  IF i > Len(s) \/ s[i] \in stops THEN i ELSE FindFirst(s, i + 1, stops)

HttpsScheme == <<"h", "t", "t", "p", "s", ":", "/", "/">>
HttpScheme == <<"h", "t", "t", "p", ":", "/", "/">>

\* new URL(s): for an http(s) URL with a host, urlObj.origin +
\* urlObj.pathname (the query string and the fragment are left out, an empty
\* path reads "/"); any other string makes the constructor throw
OriginAndPathname(s) ==
  LET scheme == IF StartsWithAt(s, 1, HttpsScheme) THEN HttpsScheme
                ELSE IF StartsWithAt(s, 1, HttpScheme) THEN HttpScheme
                ELSE <<>>
      hostEnd == FindFirst(s, Len(scheme) + 1, {"/", "?", "#"})
      pathEnd == FindFirst(s, hostEnd, {"?", "#"})
  IN IF scheme = <<>> \/ hostEnd = Len(scheme) + 1
       THEN [threw |-> TRUE, text |-> <<>>]
     ELSE [ threw |-> FALSE,
            text |-> SubSeq(s, 1, hostEnd - 1)
                       \o (IF pathEnd = hostEnd THEN <<"/">>
                           ELSE SubSeq(s, hostEnd, pathEnd - 1)) ]

\* normalized.replace(/\/$/, '')
DropTrailingSlash(s) ==
  IF s # <<>> /\ s[Len(s)] = "/" THEN SubSeq(s, 1, Len(s) - 1) ELSE s

\* the string generateStableId hashes
NormalizeLink(url) ==
  LET lowered == LowerStr(Trim(url))
      parsed == OriginAndPathname(lowered)
  IN DropTrailingSlash(IF parsed.threw THEN lowered ELSE parsed.text)

\* an id: its prefix and what follows it; `fav_` is followed by the hash in
\* hexadecimal, which is kept as the hash
FavId(hash) == [prefix |-> "fav_", rest |-> hash]
ProdId(n) == [prefix |-> "prod_", rest |-> [hi |-> 0, lo |-> n]]

generateStableId(url) == FavId(Djb2(NormalizeLink(url)))

isLegacyId(id) == id.prefix = "prod_"

\* the useMemo of favoriteIds
favoriteIds(favs) ==
  {favs[i].id : i \in 1..Len(favs)}
    \cup {generateStableId(favs[i].link) :
            i \in {j \in 1..Len(favs) : isLegacyId(favs[j].id) /\ favs[j].link # <<>>}}

\* isFavorite(product), with the favorites of the last render
isFavorite(favs, product) ==
  \/ product.id \in favoriteIds(favs)
  \/ generateStableId(product.link) \in favoriteIds(favs)

\* the updater addFavorite(product) hands to setFavorites (the fields of a
\* favorite other than id and link are copies of the product's, and are left
\* out)
addFavorite(prev, product) ==
  IF \E i \in 1..Len(prev) :
       prev[i].id = generateStableId(product.link) \/ prev[i].id = product.id
    THEN prev
  ELSE <<[id |-> generateStableId(product.link), link |-> product.link]>> \o prev

\* the updater removeFavorite(product) hands to setFavorites
removeFavorite(prev, product) ==
  LET Stays(f) == /\ f.id # generateStableId(product.link)
                  /\ f.id # product.id
                  /\ f.link # product.link
  IN SelectSeq(prev, Stays)

toggleFavorite(favs, product) ==
  IF isFavorite(favs, product) THEN removeFavorite(favs, product)
  ELSE addFavorite(favs, product)

NoToggle == [t |-> "none"]

(***************************************************************************)
(* The localStorage-backed state (useLocalStorage).                        *)
(***************************************************************************)
Tabs == {"tab1", "tab2"}

\* JSON.stringify and JSON.parse: the item holds the text of the value
JsonStringify(value) == [t |-> "json", text |-> value]
JsonParse(item) == item.text

\* the initialValue both tabs pass
InitialValue == <<>>

\* useState(() => { item = getItem(key); return item ? JSON.parse(item) :
\* initialValue })
LoadStoredValue(item) == IF item.t = "json" THEN JsonParse(item) ELSE InitialValue

InitBrowser ==
  /\ favorites = <<>>
  /\ lastToggle = NoToggle
  /\ storage = Null
  /\ storedValue = [tab \in Tabs |-> LoadStoredValue(Null)]
  /\ events = [tab \in Tabs |-> <<>>]
  /\ writes = 0

\* what the handler does not touch
auxVars == <<call, clock, created, browserVars>>

\* what a single function application does not touch
handlerVars ==
  <<pc, req, sanitizedQuery, tasks, searchPromises, res, invoked, outbound>>

NoCall == [fn |-> "none"]

NoRequest == [method |-> "", body |-> Undefined]

Init ==
  /\ pc = "idle"
  /\ req = NoRequest
  /\ sanitizedQuery = <<>>
  /\ tasks = <<>>
  /\ searchPromises = <<>>
  /\ res = NoResponse
  /\ invoked = <<>>
  /\ outbound = 0
  /\ call = NoCall
  /\ clock = 0
  /\ created = <<>>
  /\ InitBrowser

\* the handler from its entry to its first return, throw or await
handler(method, body) ==
  /\ pc = "idle"
  /\ req' = [method |-> method, body |-> body]
  /\ UNCHANGED <<call, clock, created, browserVars>>
  /\ IF MethodGate(method) = "preflight"
       THEN /\ res' = EndResponse(200)
            /\ pc' = "done"
            /\ UNCHANGED <<sanitizedQuery, tasks, searchPromises, invoked, outbound>>
     ELSE IF MethodGate(method) = "not_allowed"
       THEN /\ res' = JsonResponse(405, [error |-> "Method not allowed"])
            /\ pc' = "done"
            /\ UNCHANGED <<sanitizedQuery, tasks, searchPromises, invoked, outbound>>
     ELSE IF body.t \in {"undefined", "null"}
       \* destructuring undefined or null throws a TypeError outside the try
       THEN /\ pc' = "threw"
            /\ UNCHANGED <<sanitizedQuery, tasks, searchPromises, res, invoked, outbound>>
     ELSE IF QueryInvalid(BodyField(body, "query"))
       THEN /\ res' = JsonResponse(400, [error |-> "Search query is required"])
            /\ pc' = "done"
            /\ UNCHANGED <<sanitizedQuery, tasks, searchPromises, invoked, outbound>>
     ELSE IF StoresInvalid(BodyField(body, "stores"))
       THEN /\ res' = JsonResponse(400, [error |-> "At least one store must be selected"])
            /\ pc' = "done"
            /\ UNCHANGED <<sanitizedQuery, tasks, searchPromises, invoked, outbound>>
     ELSE LET validStores == ValidStores(BodyField(body, "stores").a)
              started == [i \in 1..Len(validStores) |-> StartTask(validStores[i])]
              calls == SelectSeq(started, HasAdapter)
          IN /\ sanitizedQuery' = SanitizeQuery(BodyField(body, "query"))
             /\ tasks' = started
             /\ searchPromises' =
                  [i \in 1..Len(started) |->
                    IF started[i].state = "pending" THEN PendingPromise(started[i].storeId)
                    ELSE ThenCatch(started[i].storeId,
                                   searchStore(started[i].storeId, sanitizedQuery', NoOutcome))]
             /\ invoked' = [i \in 1..Len(calls) |->
                             [adapter |-> calls[i].adapter, storeId |-> calls[i].storeId,
                              query |-> sanitizedQuery']]
             /\ outbound' = Len(calls)
             /\ pc' = "awaiting"
             /\ UNCHANGED res

\* the upstream of store task i answers with o: the adapter finishes and the
\* task's then/catch settles the promise the handler waits on
StoreTaskSettles(i, o) ==
  /\ pc = "awaiting"
  /\ i \in 1..Len(tasks)
  /\ tasks[i].state = "pending"
  /\ LET settlement == searchStore(tasks[i].storeId, sanitizedQuery, o)
     IN /\ tasks' = [tasks EXCEPT ![i] =
                       [@ EXCEPT !.upstream = o, !.state = settlement.state,
                                 !.value = settlement.value,
                                 !.message = settlement.message]]
        /\ searchPromises' =
             [searchPromises EXCEPT ![i] = ThenCatch(tasks[i].storeId, settlement)]
  /\ UNCHANGED <<pc, req, sanitizedQuery, res, invoked, outbound, call, clock, created, browserVars>>

\* the handler resumes after await Promise.all(searchPromises)
SendResponse ==
  /\ pc = "awaiting"
  /\ PromiseAll(searchPromises) # "pending"
  /\ res' = IF PromiseAll(searchPromises) = "fulfilled"
              THEN JsonResponse(200, SearchResponse(sanitizedQuery,
                                      BodyField(req.body, "category"), searchPromises))
            ELSE JsonResponse(500, [error |-> "Search failed. Please try again."])
  /\ pc' = "done"
  /\ UNCHANGED <<req, sanitizedQuery, tasks, searchPromises, invoked, outbound, call, clock, created, browserVars>>

\* an invocation arrives
Invoke ==
  /\ pc = "idle"
  /\ \E method \in Methods, body \in Bodies : handler(method, body)

\* some pending store task hears from its upstream
Settle ==
  /\ pc = "awaiting"
  /\ \E i \in 1..Len(tasks) :
       /\ tasks[i].state = "pending"
       /\ \E o \in UpstreamOutcomes : StoreTaskSettles(i, o)

Next ==
  \/ Invoke
  \/ Settle
  \/ SendResponse

Spec == Init /\ [][Next]_vars

(***************************************************************************)
(* The handler against arbitrary store tasks: the promise searchStore      *)
(* returns is left free to fulfil with any list or to reject with an       *)
(* Error, which is all the handler's then/catch can observe of it.         *)
(***************************************************************************)
SampleProduct(storeId) ==
  [ t |-> "product", store |-> storeId, storeName |-> storeId,
    title |-> <<"T", "o", "p">>, price |-> Str(SeePrice),
    image |-> PLACEHOLDER_IMAGE, link |-> <<"https://", storeId, "/p1">> ]

TaskSettlements(storeId) ==
  { Rejected(<<"boom">>), Fulfilled(<<>>), Fulfilled(<<SampleProduct(storeId)>>) }

\* store task i settles with the given settlement
TaskSettles(i, settlement) ==
  /\ pc = "awaiting"
  /\ i \in 1..Len(tasks)
  /\ tasks[i].state = "pending"
  /\ tasks' = [tasks EXCEPT ![i] =
                 [@ EXCEPT !.state = settlement.state, !.value = settlement.value,
                           !.message = settlement.message]]
  /\ searchPromises' =
       [searchPromises EXCEPT ![i] = ThenCatch(tasks[i].storeId, settlement)]
  /\ UNCHANGED <<pc, req, sanitizedQuery, res, invoked, outbound, call, clock, created, browserVars>>

SettleAny ==
  /\ pc = "awaiting"
  /\ \E i \in 1..Len(tasks) :
       /\ tasks[i].state = "pending"
       /\ \E settlement \in TaskSettlements(tasks[i].storeId) : TaskSettles(i, settlement)

NextTasks ==
  \/ Invoke
  \/ SettleAny
  \/ SendResponse

SpecTasks == Init /\ [][NextTasks]_vars

(***************************************************************************)
(* Properties.                                                             *)
(***************************************************************************)
IsBlank(s) == \A i \in 1..Len(s) : IsSpace(s[i])

\* the request is a POST whose body carries a non-blank string `query` and a
\* non-empty array `stores`
PassesValidation ==
  /\ req.method = "POST"
  /\ req.body.t = "object"
  /\ req.body.query.t = "string"
  /\ ~IsBlank(req.body.query.s)
  /\ req.body.stores.t = "array"
  /\ req.body.stores.a # <<>>

\* the 200 search response has been sent
SentSearchResponse ==
  /\ pc = "done"
  /\ res.status = 200
  /\ res.sent = "json"
  /\ DOMAIN res.body = {"query", "category", "stores"}

NothingDispatched == tasks = <<>> /\ invoked = <<>> /\ outbound = 0

SentError(lo, hi) ==
  /\ pc = "done"
  /\ res.sent = "json"
  /\ res.status \in lo..hi
  /\ DOMAIN res.body = {"error"}

\* C1: fault isolation.  For a validated request and any outcomes of the
\* store tasks, the response has one Store Result per dispatched store, in
\* dispatch order; a store whose task rejected has a non-null error and no
\* results, every other store has error null and exactly its task's list.
C1_FaultIsolation ==
  (pc = "done" /\ PassesValidation) =>
    /\ SentSearchResponse
    /\ Len(res.body.stores) = Len(tasks)
    /\ \A i \in 1..Len(tasks) :
         /\ res.body.stores[i].id = tasks[i].storeId
         /\ tasks[i].state = "rejected" =>
              /\ res.body.stores[i].error # Null
              /\ res.body.stores[i].results = <<>>
              /\ res.body.stores[i].count = 0
         /\ tasks[i].state = "fulfilled" =>
              /\ res.body.stores[i].error = Null
              /\ res.body.stores[i].results = tasks[i].value
              /\ res.body.stores[i].count = Len(tasks[i].value)

\* a response over two tasks, one rejected and one fulfilled with a product
C1_Witness ==
  /\ SentSearchResponse
  /\ Len(tasks) = 2
  /\ \E i, j \in 1..2 :
       /\ tasks[i].state = "rejected"
       /\ tasks[j].state = "fulfilled"
       /\ tasks[j].value # <<>>
       /\ res.body.stores[i].error # Null
       /\ res.body.stores[j].results = tasks[j].value

\* C2: a store whose outbound request failed in transport (timeout,
\* connection error, HTTP status >= 400) has a non-null error and an empty
\* result list in the response, and no exception reaches the handler.
C2_TransportFailureSurfaced ==
  /\ tasks # <<>> => pc # "threw"
  /\ SentSearchResponse =>
       \A i \in 1..Len(tasks) :
         IsTransportFailure(tasks[i].upstream) =>
           /\ res.body.stores[i].error # Null
           /\ res.body.stores[i].results = <<>>

AllSettled == \A i \in 1..Len(tasks) : tasks[i].state # "pending"

\* C3: the 200 search response is sent only when no dispatched store task is
\* pending, and once all have settled the waiting handler can send it.
C3_ResponseAfterAllSettled ==
  /\ SentSearchResponse => AllSettled
  /\ (pc = "awaiting" /\ AllSettled) => ENABLED SendResponse
  /\ (pc = "awaiting" /\ ~AllSettled) => ~ENABLED SendResponse

\* a response sent after two upstream answers arrived
C3_Witness ==
  /\ SentSearchResponse
  /\ Len(tasks) = 2
  /\ \A i \in 1..2 : tasks[i].upstream # NoOutcome

IsStoreKey(id) == id \in StoreKeys

\* C4: response.stores is, in order, the request's stores restricted to the
\* known store ids, one Store Result per occurrence.
C4_RequestOrder ==
  SentSearchResponse =>
    [i \in 1..Len(res.body.stores) |-> res.body.stores[i].id]
      = SelectSeq(req.body.stores.a, IsStoreKey)

\* C5: no adapter is invoked for, and no Store Result is emitted with, an id
\* that is not one of the 13 keys of the store-configuration table.
C5_UnknownIdsDropped ==
  /\ \A k \in 1..Len(invoked) : invoked[k].storeId \in StoreKeys
  /\ SentSearchResponse =>
       \A i \in 1..Len(res.body.stores) : res.body.stores[i].id \in StoreKeys

\* the body is present and its `query` is missing, not a string or only
\* whitespace, or its `stores` is missing, not an array or empty
InvalidFields ==
  /\ req.method = "POST"
  /\ req.body.t \in {"object", "string"}
  /\ \/ BodyField(req.body, "query").t # "string"
     \/ IsBlank(BodyField(req.body, "query").s)
     \/ BodyField(req.body, "stores").t # "array"
     \/ BodyField(req.body, "stores").a = <<>>

\* C6: validation precedes dispatch.  A POST whose body has an invalid
\* `query` or `stores` is answered 4xx with an `error` field, and no adapter
\* is invoked and no outbound request is made.
C6_ValidationBeforeDispatch ==
  (pc # "idle" /\ InvalidFields) => (SentError(400, 499) /\ NothingDispatched)

\* a whitespace-only query with a well-formed store list was rejected
C6_Witness ==
  /\ pc = "done"
  /\ req.method = "POST"
  /\ req.body.t = "object"
  /\ req.body.query = Str(<<" ">>)
  /\ req.body.stores = Arr(<<"hm">>)
  /\ res.status = 400

\* C7: a POST whose body is undefined or null is answered 4xx with an
\* `error` field, and no adapter runs.
C7_MissingBodyRejected ==
  (pc # "idle" /\ req.method = "POST" /\ req.body.t \in {"undefined", "null"}) =>
    (SentError(400, 499) /\ NothingDispatched)

\* C8: a request that passes validation is never answered with an error and
\* never throws: it waits, and then the 200 search response is sent, whatever
\* the store tasks did.
C8_ValidatedRequestGets200 ==
  PassesValidation =>
    /\ pc \in {"awaiting", "done"}
    /\ pc = "awaiting" => res = NoResponse
    /\ pc = "done" => SentSearchResponse

\* a 200 response although every store task rejected
C8_Witness ==
  /\ SentSearchResponse
  /\ Len(tasks) = 2
  /\ \A i \in 1..2 : tasks[i].state = "rejected"

\* C9: adapters never throw.  Whatever the outbound request of an adapter
\* came back with, its promise is fulfilled with a list, and with the empty
\* list when the request failed or the payload was not usable.
C9_AdaptersNeverThrow ==
  \A i \in 1..Len(tasks) :
    /\ tasks[i].state # "rejected"
    /\ tasks[i].upstream # NoOutcome =>
         /\ tasks[i].state = "fulfilled"
         /\ \A k \in 1..Len(tasks[i].value) : tasks[i].value[k].t = "product"
         /\ (IsTransportFailure(tasks[i].upstream) \/ tasks[i].upstream.body.shape = "unparseable")
              => tasks[i].value = <<>>

\* two adapters whose upstreams failed, one with HTTP 500 and one with a
\* body that does not parse, have fulfilled
C9_Witness ==
  \E i, j \in 1..Len(tasks) :
    /\ tasks[i].adapter = "scrapeHM"
    /\ tasks[i].upstream = HttpResponse(500, Unparseable)
    /\ tasks[i].state = "fulfilled"
    /\ tasks[j].adapter = "scrapeASOS"
    /\ tasks[j].upstream = HttpResponse(200, Unparseable)
    /\ tasks[j].state = "fulfilled"

\* C10: the method gate.  OPTIONS is answered 200 without a body, any method
\* other than POST and OPTIONS is answered 405 with an `error` field, and in
\* both cases the body is not read and nothing is dispatched.
C10_MethodGate ==
  /\ (pc # "idle" /\ req.method = "OPTIONS") =>
       (pc = "done" /\ res = EndResponse(200) /\ NothingDispatched)
  /\ (pc # "idle" /\ req.method \notin {"POST", "OPTIONS"}) =>
       (SentError(405, 405) /\ NothingDispatched)

\* a GET without a body was answered 405
C10_Witness ==
  /\ pc = "done"
  /\ req.method = "GET"
  /\ req.body = Undefined
  /\ res.status = 405

\* C11: every Product of every Store Result, whichever of the adapters
\* produced it, has a non-empty title other than "Unknown Product" and a
\* non-empty link other than "#".
IsListedProduct(p) ==
  /\ p.title # <<>>
  /\ p.title # UnknownProduct
  /\ p.link # <<>>
  /\ p.link # <<"#">>

C11_ResultsAreValid ==
  /\ \A i \in 1..Len(tasks) :
       tasks[i].state = "fulfilled" =>
         \A k \in 1..Len(tasks[i].value) : IsListedProduct(tasks[i].value[k])
  /\ SentSearchResponse =>
       \A i \in 1..Len(res.body.stores) :
         \A k \in 1..Len(res.body.stores[i].results) :
           IsListedProduct(res.body.stores[i].results[k])

\* a response in which a store lists the one titled item of a listing whose
\* other item has no title
C11_Witness ==
  /\ SentSearchResponse
  /\ \E i \in 1..Len(tasks) :
       /\ tasks[i].upstream = HttpResponse(200, Listing(<<UntitledItem, GoodItem>>))
       /\ Len(res.body.stores[i].results) = 1

(***************************************************************************)
(* Single applications of the functions of the module.  One behaviour is   *)
(* one call: the initial state holds the function and its argument, the    *)
(* step is the call returning.  The handler stays idle throughout.         *)
(***************************************************************************)
\* longest run of words a title argument is made of
MaxTitleWords == 2
\* longest title argument, in characters
LongestTitle == 122
\* longest upstream listing
MaxListing == 13

RECURSIVE Concat(_)
Concat(ss) == IF ss = <<>> THEN <<>> ELSE Head(ss) \o Concat(Tail(ss))

TitleWords ==
  { <<"n", "e", "w">>, <<"S", "a", "l", "e", ":">>, <<"H", "O", "T">>,
    <<"b", "e", "s", "t", " ", "s", "e", "l", "l", "e", "r">>,
    <<" ">>, <<"-">>, <<"T", "o", "p">> }

\* n letters, the k-th of them a blank when 0 < k <= n
LongTitle(n, k) == [i \in 1..n |-> IF i = k THEN " " ELSE "a"]

\* the strings cleanTitle is called with
TitleTexts ==
  {Concat(ws) : ws \in SeqsUpTo(TitleWords, MaxTitleWords)}
    \cup {LongTitle(n, k) : n \in (MaxTitleLength - 1)..LongestTitle,
                            k \in {0, MaxTitleLength - 3}}
    \cup {<<"n", "e", "w", " ">> \o LongTitle(n, 0) :
            n \in (MaxTitleLength - 1)..LongestTitle}

TitleArgs == {Undefined, Null, Num(5)} \cup {Str(s) : s \in TitleTexts}

\* an amount: an optional minus sign, an optional symbol, the units, and the
\* cents when cents >= 0
PriceAmounts ==
  [ kind : {"amount"}, neg : BOOLEAN, symbol : {"", "$", "£"},
    units : {0, 5, 1299, 49999, 50000, 60000}, cents : {-1, 0, 99} ]

TwoDigits(n) == <<DigitChars[(n \div 10) + 1], DigitChars[(n % 10) + 1]>>

AmountText(d) ==
  (IF d.neg THEN <<"-">> ELSE <<>>)
    \o (IF d.symbol = "" THEN <<>> ELSE <<d.symbol>>)
    \o NatToDigits(d.units)
    \o (IF d.cents >= 0 THEN <<".">> \o TwoDigits(d.cents) ELSE <<>>)

\* price texts that are not a bare amount
PriceTexts ==
  { <<>>, <<" ">>, <<"$">>,
    <<"S", "o", "l", "d", " ", "o", "u", "t">>,
    <<"C", "a", "l", "l", " ", "f", "o", "r", " ", "p", "r", "i", "c", "e">>,
    <<"F", "r", "o", "m", " ", "$", "2", "5">>,
    <<"$", "2", "9", " ", "-", " ", "$", "4", "9">>,
    <<"U", "S", "D", " ", "1", ",", "2", "9", "9", ".", "5", "0">>,
    <<"$", " ", "5">> }

PriceCalls ==
  {[fn |-> "cleanPrice", arg |-> Str(AmountText(d)), about |-> d,
    done |-> FALSE, result |-> Undefined] : d \in PriceAmounts}
    \cup {[fn |-> "cleanPrice", arg |-> v, about |-> [kind |-> "other"],
           done |-> FALSE, result |-> Undefined] :
            v \in {Undefined, Null, Num(25)} \cup {Str(s) : s \in PriceTexts}}

TitleCalls ==
  {[fn |-> "cleanTitle", arg |-> v, about |-> [kind |-> "other"],
    done |-> FALSE, result |-> Undefined, again |-> Undefined] : v \in TitleArgs}

ImageTexts ==
  { <<>>,
    <<"https:", "//", "cdn.example.com", "/a", ".jpg">>,
    <<" ", "https:", "//", "cdn.example.com", "/a", ".jpg", " ">>,
    <<"//", "cdn.example.com", "/a", ".jpg">>,
    <<"http:", "//", "cdn.example.com", "/a", ".jpg">>,
    <<"ftp:", "//", "cdn.example.com", "/a", ".jpg">>,
    <<"data:", "image/gif;base64,R0lGOD">>,
    <<"/img", "/a", ".jpg">>,
    <<"https:", "//", "cdn.example.com", "/", "placeholder", ".png">> }

ImageArgs == {Undefined, Num(7)} \cup {Str(s) : s \in ImageTexts}

FormatTitleArgs ==
  {Undefined, Num(5)}
    \cup {Str(s) : s \in {<<>>, <<" ">>, <<"n", "e", "w">>,
                          <<"N", "e", "w", " ", "T", "o", "p">>}}
    \cup {Str(LongTitle(n, k)) : n \in MaxTitleLength..LongestTitle,
                                 k \in {0, MaxTitleLength - 3}}

FormatPriceArgs ==
  {Undefined, Num(25)}
    \cup {Str(s) : s \in {<<"$", "2", "9", ".", "9", "9">>, <<"2", "9">>,
                          <<"£", "2", "0">>, <<"$">>,
                          <<"$", "6", "0", "0", "0", "0", ".", "0", "0">>,
                          <<"S", "o", "l", "d", " ", "o", "u", "t">>}}

LinkArgs == {<<>>, <<"https://shop.example.com", "/p1">>}

FormatCalls ==
  {[fn |-> "formatProduct",
    arg |-> [title |-> title, price |-> price, image |-> image, link |-> link],
    about |-> [kind |-> "other"], done |-> FALSE, result |-> Undefined] :
     title \in FormatTitleArgs, price \in FormatPriceArgs,
     image \in ImageArgs, link \in LinkArgs}

\* the k-th item of a listing
Item(k) ==
  [t |-> "object", title |-> Str(<<"T", "o", "p">>),
   url |-> Str(<<"/p" \o ToString(k)>>)]

\* n items; the items at a multiple of gap have no title, the item at
\* nullAt, if any, is null
ListingOf(n, gap, nullAt) ==
  [k \in 1..n |->
    IF k = nullAt THEN Null
    ELSE IF gap > 0 /\ k % gap = 0 THEN [Item(k) EXCEPT !.title = Undefined]
    ELSE Item(k)]

\* the items of a JSON object, in the order of its text, under these keys
KeyedListing(keys) ==
  [k \in 1..Len(keys) |->
    [t |-> "object", title |-> Str(<<"T", "o", "p">>),
     url |-> Str(<<"/p" \o ToString(k)>>), key |-> keys[k]]]

Listings ==
  {ListingOf(n, gap, nullAt) :
     n \in 0..MaxListing, gap \in {0, 3}, nullAt \in {0, MaxListing - 1}}
    \cup {KeyedListing(keys) : keys \in {<<1, 2, 3>>, <<30, 10, 20>>}}

\* one store of each adapter
AdapterStores == {"whitefox", "asos", "hm", "lulus", "nordstrom", "shein"}

\* a price of a Tier 1 suggest listing: a JSON number (no cents) or a string
Tier1Prices ==
  { d \in [ kind : {"tier1"}, units : {0, 1, 99, 100, 101, 150, 2999, 60000},
            cents : {-1, 0, 50}, asNumber : BOOLEAN ] :
      d.asNumber => d.cents = -1 }

Tier1Raw(d) ==
  IF d.asNumber THEN Num(d.units)
  ELSE Str(NatToDigits(d.units) \o
           (IF d.cents >= 0 THEN <<".">> \o TwoDigits(d.cents) ELSE <<>>))

AdapterCalls ==
  {[fn |-> "scrape", arg |-> [storeId |-> storeId, items |-> items],
    about |-> [kind |-> "listing"], done |-> FALSE, result |-> Undefined] :
     storeId \in AdapterStores, items \in Listings}
    \cup {[fn |-> "scrape",
           arg |-> [storeId |-> "whitefox",
                    items |-> <<[t |-> "object", title |-> Str(<<"T", "o", "p">>),
                                 url |-> Str(<<"/p1">>), price |-> Tier1Raw(d)]>>],
           about |-> d, done |-> FALSE, result |-> Undefined] : d \in Tier1Prices}

\* price ranges: a lower bound, a separator and an upper bound
RangeLowerBounds ==
  [ kind : {"amount"}, neg : {FALSE}, symbol : {"", "$", "£"},
    units : {0, 29, 49999, 50000}, cents : {-1, 0, 99} ]

RangeUpperBounds ==
  [ kind : {"amount"}, neg : {FALSE}, symbol : {"$", "£"},
    units : {49, 60000}, cents : {-1} ]

RangeSeparators == {<<" ", "-", " ">>, <<"-">>, <<" ", "t", "o", " ">>}

RangeCalls ==
  {[fn |-> "cleanPrice",
    arg |-> Str(AmountText(lo) \o sep \o AmountText(hi)),
    about |-> [kind |-> "range", first |-> lo, sep |-> sep, second |-> hi],
    done |-> FALSE, result |-> Undefined] :
     lo \in RangeLowerBounds, sep \in RangeSeparators, hi \in RangeUpperBounds}

\* protocol-relative image texts beyond those of ImageTexts
ProtocolRelativeTexts ==
  { <<"//">>,
    <<"//", " ">>,
    <<" ", "//", "cdn.example.com", "/a", ".jpg", " ">>,
    <<"//", "cdn.example.com", "/", "1x1", ".png">>,
    <<"//", "cdn.example.com", "/", "spacer", ".gif">> }

ImageCalls ==
  {[fn |-> "cleanImageUrl", arg |-> v, about |-> [kind |-> "other"],
    done |-> FALSE, result |-> Undefined] :
     v \in ImageArgs \cup {Str(t) : t \in ProtocolRelativeTexts}}

\* every store of the configuration table, with a listing of two items
StoreCalls ==
  {[fn |-> "scrape", arg |-> [storeId |-> storeId, items |-> ListingOf(2, 0, 0)],
    about |-> [kind |-> "store"], done |-> FALSE, result |-> Undefined] :
     storeId \in StoreKeys}

Calls == PriceCalls \cup RangeCalls \cup ImageCalls \cup StoreCalls \cup TitleCalls \cup FormatCalls \cup AdapterCalls

InitCalls ==
  /\ pc = "idle"
  /\ req = NoRequest
  /\ sanitizedQuery = <<>>
  /\ tasks = <<>>
  /\ searchPromises = <<>>
  /\ res = NoResponse
  /\ invoked = <<>>
  /\ outbound = 0
  /\ call \in Calls
  /\ clock = 0
  /\ created = <<>>
  /\ InitBrowser

CallCleanPrice ==
  /\ call.fn = "cleanPrice"
  /\ ~call.done
  /\ call' = [call EXCEPT !.done = TRUE, !.result = cleanPrice(call.arg)]
  /\ UNCHANGED <<handlerVars, clock, created, browserVars>>

CallCleanTitle ==
  /\ call.fn = "cleanTitle"
  /\ ~call.done
  /\ call' = [call EXCEPT !.done = TRUE,
                          !.result = cleanTitle(call.arg, MaxTitleLength)]
  /\ UNCHANGED <<handlerVars, clock, created, browserVars>>

\* the title cleanTitle returned is cleaned once more
CallCleanTitleAgain ==
  /\ call.fn = "cleanTitle"
  /\ call.done
  /\ call.again = Undefined
  /\ call' = [call EXCEPT !.again = Str(cleanTitle(Str(call.result), MaxTitleLength))]
  /\ UNCHANGED <<handlerVars, clock, created, browserVars>>

CallCleanImageUrl ==
  /\ call.fn = "cleanImageUrl"
  /\ ~call.done
  /\ call' = [call EXCEPT !.done = TRUE, !.result = cleanImageUrl(call.arg)]
  /\ UNCHANGED <<handlerVars, clock, created, browserVars>>

CallFormatProduct ==
  /\ call.fn = "formatProduct"
  /\ ~call.done
  /\ call' = [call EXCEPT !.done = TRUE,
                          !.result = formatProduct(call.arg, "Shop", "shop")]
  /\ UNCHANGED <<handlerVars, clock, created, browserVars>>

\* an adapter is run against an upstream that answers 200 with the listing
CallAdapter ==
  /\ call.fn = "scrape"
  /\ ~call.done
  /\ call' = [call EXCEPT
                !.done = TRUE,
                !.result = searchStore(call.arg.storeId, <<"a">>,
                             HttpResponse(200, Listing(call.arg.items))).value]
  /\ UNCHANGED <<handlerVars, clock, created, browserVars>>

NextCalls ==
  \/ CallCleanPrice
  \/ CallCleanTitle
  \/ CallCleanTitleAgain
  \/ CallCleanImageUrl
  \/ CallFormatProduct
  \/ CallAdapter

SpecCalls == InitCalls /\ [][NextCalls]_vars

(***************************************************************************)
(* Properties of the normalizers, the formatter and the adapters.          *)
(***************************************************************************)
Returned_(fn) == call.fn = fn /\ call.done

\* a currency symbol followed by digits with optional decimals, denoting a
\* number strictly between 0 and 50000
IsNormalizedAmount(v) ==
  /\ v.t = "string"
  /\ Len(v.s) >= 2
  /\ v.s[1] \in CurrencySymbols
  /\ LET rest == Tail(v.s)
         units == IntDigits(rest)
         point == Len(units) < Len(rest) /\ rest[Len(units) + 1] = "."
     IN /\ units # <<>>
        /\ Len(rest) = Len(units) + (IF point THEN 1 + Len(FracDigits(rest)) ELSE 0)
        /\ IsPositive(rest)
        /\ IntValue(units) < PriceCeiling

IsPriceOrSentinel(v) == IsNormalizedAmount(v) \/ v = Str(SeePrice)

\* C12: the price of every Product the formatter produces, called directly or
\* by an adapter, is a normalized currency-prefixed amount whose value lies
\* strictly between 0 and 50000, or is exactly "See price".
C12_PriceNormalizedOrSentinel ==
  /\ (Returned_("formatProduct") /\ call.result.t = "product") =>
       IsPriceOrSentinel(call.result.price)
  /\ Returned_("scrape") =>
       \A k \in 1..Len(call.result) : IsPriceOrSentinel(call.result[k].price)

\* C13: cleanPrice returns null for every amount v with v <= 0 (a negative
\* amount such as "-5" included) or v >= 50000.
AmountOutOfRange(d) ==
  \/ d.neg
  \/ (d.units = 0 /\ d.cents <= 0)
  \/ d.units >= PriceCeiling

C13_OutOfRangeRejected ==
  (Returned_("cleanPrice") /\ call.about.kind = "amount"
     /\ AmountOutOfRange(call.about)) => call.result = Null

\* the price, in hundredths, the heuristic is to show for the raw price d
ExpectedHundredths(d) ==
  IF d.cents = -1 /\ d.units > 100 THEN d.units
  ELSE 100 * d.units + (IF d.cents > 0 THEN d.cents ELSE 0)

\* C14: for a Tier 1 upstream price of positive value n, the product price
\* is n/100 with two decimals exactly when n is an integer greater than 100
\* whose string has no decimal point, and n with two decimals otherwise.
C14_CentsHeuristic ==
  (Returned_("scrape") /\ call.about.kind = "tier1"
     /\ (call.about.units > 0 \/ call.about.cents > 0)) =>
    /\ Len(call.result) = 1
    /\ call.result[1].price =
         Str(<<"$">> \o ToFixed2(ExpectedHundredths(call.about)))

\* the number 150 came back as "$1.50"
C14_Witness ==
  /\ Returned_("scrape")
  /\ call.about.kind = "tier1"
  /\ call.arg.items[1].price = Num(150)
  /\ call.result[1].price = Str(<<"$", "1", ".", "5", "0">>)

\* C15: cleanTitle is idempotent: cleaning a title cleanTitle returned gives
\* the same title, for titles with one or more promotional prefixes, titles
\* that are only a prefix or only blanks, and titles over 120 characters.
C15_TitleIdempotent ==
  (call.fn = "cleanTitle" /\ call.again.t = "string") =>
    call.again = Str(call.result)

EndsWithEllipsis(s) ==
  Len(s) >= 3 /\ SubSeq(s, Len(s) - 2, Len(s)) = <<".", ".", ".">>

\* the title as cleanTitle leaves it when there is room for all of it
WholeTitle(title) == cleanTitle(title, Len(title.s) + 3)

\* C16: the title of every Product the formatter produces is a non-empty
\* string of at most 120 characters; a title that was cut ends with "...";
\* an absent, non-string or empty-after-cleaning title is "Unknown Product".
C16_TitleBounded ==
  (Returned_("formatProduct") /\ call.result.t = "product") =>
    LET title == call.arg.title
        out == call.result.title
    IN /\ out # <<>>
       /\ Len(out) <= 120
       /\ (title.t # "string" \/ title.s = <<>>) => out = UnknownProduct
       /\ (title.t = "string" /\ title.s # <<>>) =>
            /\ WholeTitle(title) = <<>> => out = UnknownProduct
            /\ (WholeTitle(title) # <<>> /\ out # WholeTitle(title)) =>
                 /\ EndsWithEllipsis(out)
                 /\ Len(out) < Len(WholeTitle(title))
                 /\ SubSeq(out, 1, Len(out) - 3)
                      = SubSeq(WholeTitle(title), 1, Len(out) - 3)

\* a title of more than 120 characters came back cut to 120
C16_Witness ==
  /\ Returned_("formatProduct")
  /\ call.result.t = "product"
  /\ call.arg.title.t = "string"
  /\ Len(call.arg.title.s) > 120
  /\ Len(call.result.title) = 120
  /\ EndsWithEllipsis(call.result.title)

IsHttpsUrl(s) == Len(s) >= 3 /\ s[1] = "https:" /\ s[2] = "//"

\* C17: the image of every Product the formatter produces is an absolute
\* https URL or the placeholder data-URI; an upstream image of another scheme
\* (http, data, other), a missing or a malformed one becomes the placeholder.
C17_ImageHttpsOrPlaceholder ==
  (Returned_("formatProduct") /\ call.result.t = "product") =>
    (IsHttpsUrl(call.result.image) \/ call.result.image = PLACEHOLDER_IMAGE)

\* product p was made from item j of the listing: its link holds the item's url
MadeFrom(p, items, j) ==
  /\ items[j].t # "null"
  /\ \E i \in 1..Len(p.link) : p.link[i] = items[j].url.s[1]

\* C18: the products of a Store Result are a subsequence of the upstream
\* items in the upstream's order, none of them twice, and there are at most
\* 12 of them, for every adapter and every listing.
C18_UpstreamOrderCapped ==
  (Returned_("scrape") /\ call.about.kind = "listing") =>
    LET items == call.arg.items
        out == call.result
        Source(k) == CHOOSE j \in 1..Len(items) : MadeFrom(out[k], items, j)
    IN /\ Len(out) <= 12
       /\ \A k \in 1..Len(out) : \E j \in 1..Len(items) : MadeFrom(out[k], items, j)
       /\ \A k1, k2 \in 1..Len(out) : k1 < k2 => Source(k1) < Source(k2)

\* C19: the query echoed in the response and the query every adapter is
\* called with are the same sanitized string: it has no leading or trailing
\* whitespace, none of the characters < > { }, and at most 200 characters.
C19_SanitizedQuery ==
  pc \in {"awaiting", "done"} /\ PassesValidation =>
    /\ \A k \in 1..Len(invoked) : invoked[k].query = sanitizedQuery
    /\ SentSearchResponse => res.body.query = sanitizedQuery
    /\ \A i \in 1..Len(sanitizedQuery) : sanitizedQuery[i] \notin {"<", ">", "{", "}"}
    /\ Len(sanitizedQuery) <= 200
    /\ sanitizedQuery # <<>> =>
         /\ ~IsSpace(sanitizedQuery[1])
         /\ ~IsSpace(sanitizedQuery[Len(sanitizedQuery)])

\* a currency symbol, then digits, points and blanks only, the digits reading
\* as a number strictly between 0 and 50000
IsAcceptedAmount(v) ==
  /\ v.t = "string"
  /\ Len(v.s) >= 2
  /\ v.s[1] \in CurrencySymbols
  /\ \A i \in 2..Len(v.s) : v.s[i] \in Digits \cup {".", " "}
  /\ InPriceRange(SelectSeq(v.s, IsPriceChar))

\* C12, amended: the price of a Product the formatter produces is a
\* currency-prefixed amount strictly between 0 and 50000, or the raw upstream
\* price unchanged, or "See price"; it is "See price" only when the raw price
\* is absent or empty (or is that very string), and a non-empty raw price is
\* replaced only by an accepted amount.
C12_PriceFallbackChain ==
  (Returned_("formatProduct") /\ call.result.t = "product") =>
    LET raw == call.arg.price
        out == call.result.price
    IN /\ IsAcceptedAmount(out) \/ out = raw \/ out = Str(SeePrice)
       /\ (out = Str(SeePrice) /\ raw # Str(SeePrice)) => ~Truthy(raw)
       /\ (Truthy(raw) /\ out # raw) => IsAcceptedAmount(out)

\* the raw text "Sold out" came back as the price
C12_Witness ==
  /\ Returned_("formatProduct")
  /\ call.result.t = "product"
  /\ call.arg.price = Str(<<"S", "o", "l", "d", " ", "o", "u", "t">>)
  /\ call.result.price = call.arg.price

(***************************************************************************)
(* The ids of the Products one process creates.  Date.now() and            *)
(* Math.random() are the environment's: the clock never runs backwards,    *)
(* the random suffix is any string Math.random().toString(36).substr(2, 9) *)
(* can be.                                                                 *)
(***************************************************************************)
\* most Products created in one behaviour
MaxCreated == 3
\* most milliseconds that pass in one behaviour
MaxClock == 2

\* some of the suffixes: up to nine base-36 digits, none when Math.random()
\* returns 0
RandomSuffixes ==
  { <<>>, <<"i">>, <<"4", "f", "z", "z", "z", "x", "j", "y", "l">> }

\* generateProductId(), given what Date.now() and Math.random() return
generateProductId(now, suffix) ==
  <<"p", "r", "o", "d", "_">> \o NatToDigits(now) \o <<"_">> \o suffix

\* a millisecond passes
Tick ==
  /\ clock < MaxClock
  /\ clock' = clock + 1
  /\ UNCHANGED <<handlerVars, call, created, browserVars>>

\* formatProduct creates a Product: its id is a fresh generateProductId()
CreateProduct ==
  /\ Len(created) < MaxCreated
  /\ \E suffix \in RandomSuffixes :
       created' = Append(created, generateProductId(clock, suffix))
  /\ UNCHANGED <<handlerVars, call, clock, browserVars>>

NextIds ==
  \/ Tick
  \/ CreateProduct

SpecIds == Init /\ [][NextIds]_vars

\* C20: no two Products created in one process carry the same id.
C20_IdsUnique ==
  \A i, j \in 1..Len(created) : i # j => created[i] # created[j]

(***************************************************************************)
(* Properties of the formatter and of the price and image normalizers.     *)
(***************************************************************************)
\* the candidate record has neither a title nor a link
LacksTitleAndLink(data) == ~Truthy(data.title) /\ data.link = <<>>

\* C21: formatProduct returns null exactly when the candidate record has
\* neither a title nor a link; otherwise it returns a Product, whose title is
\* "Unknown Product" when the record has no title and whose link is "#" when
\* the record has no link.
C21_NullIffNoTitleNoLink ==
  Returned_("formatProduct") =>
    /\ (call.result.t = "null") <=> LacksTitleAndLink(call.arg)
    /\ call.result.t # "null" =>
         /\ call.result.t = "product"
         /\ ~Truthy(call.arg.title) => call.result.title = UnknownProduct
         /\ call.arg.link = <<>> => call.result.link = <<"#">>
         /\ call.arg.link # <<>> => call.result.link = call.arg.link

\* a record with a link and no title was formatted into a Product
C21_Witness ==
  /\ Returned_("formatProduct")
  /\ ~Truthy(call.arg.title)
  /\ call.arg.link # <<>>
  /\ call.result.t = "product"
  /\ call.result.title = UnknownProduct

\* what cleanPrice is to make of the amount d alone: the amount with its
\* symbol, $ when it has none, or null when it is not between 0 and 50000
NormalizedAmount(d) ==
  (IF d.symbol = "" THEN <<"$">> ELSE <<d.symbol>>)
    \o NatToDigits(d.units)
    \o (IF d.cents >= 0 THEN <<".">> \o TwoDigits(d.cents) ELSE <<>>)

ExpectedPrice(d) == IF AmountOutOfRange(d) THEN Null ELSE Str(NormalizedAmount(d))

\* C22: for a price string holding a range, cleanPrice returns the first
\* bound, normalized, when that bound lies strictly between 0 and 50000 and
\* null otherwise; it never returns the second bound.
C22_RangeGivesFirstBound ==
  (Returned_("cleanPrice") /\ call.about.kind = "range") =>
    /\ call.result = ExpectedPrice(call.about.first)
    /\ call.result # Str(NormalizedAmount(call.about.second))

\* "$29 - $49" gave "$29"
C22_Witness ==
  /\ Returned_("cleanPrice")
  /\ call.arg = Str(<<"$", "2", "9", " ", "-", " ", "$", "4", "9">>)
  /\ call.about.kind = "range"
  /\ call.result = Str(<<"$", "2", "9">>)

\* a range whose first bound is 0 gave null although its second bound is a
\* plausible price
C22_WitnessNull ==
  /\ Returned_("cleanPrice")
  /\ call.about.kind = "range"
  /\ AmountOutOfRange(call.about.first)
  /\ ~AmountOutOfRange(call.about.second)
  /\ call.result = Null

HasDigit(s) == \E i \in 1..Len(s) : s[i] \in Digits

\* C23: cleanPrice returns null or a string for every input; it returns null
\* for an absent value, for a value that is not a string, for the empty
\* string and for a string without digits, and a string it returns never
\* denotes zero.
C23_PriceTotalNeverZero ==
  Returned_("cleanPrice") =>
    /\ call.result.t \in {"null", "string"}
    /\ call.arg.t # "string" => call.result = Null
    /\ (call.arg.t = "string" /\ ~HasDigit(call.arg.s)) => call.result = Null
    /\ call.result.t = "string" =>
         /\ HasDigit(call.result.s)
         /\ IsPositive(SelectSeq(call.result.s, IsPriceChar))

\* "Call for price" and the amount "$0.00" both gave null
C23_Witness ==
  /\ Returned_("cleanPrice")
  /\ call.result = Null
  /\ \/ call.arg =
          Str(<<"C", "a", "l", "l", " ", "f", "o", "r", " ", "p", "r", "i", "c", "e">>)
     \/ call.arg = Str(<<"$", "0", ".", "0", "0">>)

\* the string starts with "//"
IsProtocolRelative(s) == s # <<>> /\ s[1] = "//"

\* C24: cleanImageUrl turns every string that starts with "//" into that
\* string prefixed with "https:", and never returns a string that starts
\* with "//".
C24_ProtocolRelativeRewritten ==
  (Returned_("cleanImageUrl") /\ call.arg.t = "string") =>
    /\ IsProtocolRelative(call.arg.s) =>
         call.result = Str(<<"https:">> \o call.arg.s)
    /\ call.result.t = "string" => ~IsProtocolRelative(call.result.s)

\* C24, amended: cleanImageUrl turns a string that, once trimmed, starts with
\* "//" into the trimmed string prefixed with "https:" when that holds no
\* placeholder pattern and parses as a URL, and into null otherwise; it
\* never returns a string that starts with "//".
C24_RewrittenOrRejected ==
  (Returned_("cleanImageUrl") /\ call.arg.t = "string") =>
    /\ IsProtocolRelative(Trim(call.arg.s)) =>
         LET prefixed == <<"https:">> \o Trim(call.arg.s)
         IN call.result =
              IF /\ \A i \in 1..Len(prefixed) : prefixed[i] \notin PlaceholderMarks
                 /\ IsAbsoluteUrl(prefixed)
                THEN Str(prefixed) ELSE Null
    /\ call.result.t = "string" => ~IsProtocolRelative(call.result.s)

\* "//cdn.example.com/a.jpg" came back as "https://cdn.example.com/a.jpg"
C24_Witness ==
  /\ Returned_("cleanImageUrl")
  /\ call.arg = Str(<<"//", "cdn.example.com", "/a", ".jpg">>)
  /\ call.result = Str(<<"https:", "//", "cdn.example.com", "/a", ".jpg">>)

(***************************************************************************)
(* Properties of the dispatch of the store tasks.                          *)
(***************************************************************************)
\* C25: when the handler waits at Promise.all every valid store has its task,
\* and every adapter has been called and has issued its request; a pending
\* task can then complete whatever the state of the other tasks, and only the
\* response waits for the tasks that are pending.
C25_AllStartedBeforeWaiting ==
  pc = "awaiting" =>
    LET validStores == ValidStores(BodyField(req.body, "stores").a)
        withAdapter == {i \in 1..Len(tasks) : AdapterOf(tasks[i].storeId) # "none"}
    IN /\ Len(tasks) = Len(validStores)
       /\ Len(searchPromises) = Len(validStores)
       /\ \A i \in 1..Len(tasks) : tasks[i].storeId = validStores[i]
       /\ Len(invoked) = Cardinality(withAdapter)
       /\ outbound = Cardinality(withAdapter)
       /\ \A i \in withAdapter :
            \E k \in 1..Len(invoked) : invoked[k].storeId = tasks[i].storeId
       /\ \A i \in 1..Len(tasks) :
            tasks[i].state = "pending" =>
              ENABLED (\E o \in UpstreamOutcomes : StoreTaskSettles(i, o))
       /\ (\E i \in 1..Len(searchPromises) : searchPromises[i].state = "pending") =>
            res = NoResponse

\* the second store's task has completed with products while the first
\* store's upstream has not answered yet, and no response has been sent
C25_Witness ==
  /\ pc = "awaiting"
  /\ Len(tasks) = 2
  /\ tasks[1].state = "pending"
  /\ tasks[2].state = "fulfilled"
  /\ tasks[2].value # <<>>
  /\ Len(invoked) = 2
  /\ res = NoResponse

\* C26: the query of every adapter call is a non-empty string, and so is the
\* sanitized query of every request that passed validation.
C26_NoEmptyQueryToAdapters ==
  /\ \A k \in 1..Len(invoked) : invoked[k].query # <<>>
  /\ (pc \in {"awaiting", "done"} /\ PassesValidation) => sanitizedQuery # <<>>

\* the products of a Store Result carry its id and its name
BelongsTo(products, storeResult) ==
  \A k \in 1..Len(products) :
    /\ products[k].store = storeResult.id
    /\ products[k].storeName = storeResult.name

\* C27: every Product of a Store Result has the Store Result's id as its
\* store and the Store Result's name as its storeName: in every response the
\* handler sends, and for what the adapter of each of the 13 stores returns
\* once the handler has made a Store Result of it.
C27_ProductsBelongToStore ==
  /\ SentSearchResponse =>
       \A i \in 1..Len(res.body.stores) :
         BelongsTo(res.body.stores[i].results, res.body.stores[i])
  /\ Returned_("scrape") =>
       BelongsTo(call.result,
                 StoreResult([storeId |-> call.arg.storeId, results |-> call.result,
                              error |-> Null]))

\* the H&M adapter returned products, whose storeName is the hard-coded "H&M"
C27_Witness ==
  /\ Returned_("scrape")
  /\ call.arg.storeId = "hm"
  /\ call.about.kind = "store"
  /\ Len(call.result) = 2
  /\ call.result[1].storeName = "H&M"

(***************************************************************************)
(* Properties of the requests the frontend sends.                          *)
(***************************************************************************)
SentByFrontend == req.body \in FrontendBodies /\ req.body.t = "object"

\* C28: every store id of a search request the frontend sends is a key of
\* the store-configuration table, and the response to such a request has one
\* Store Result per selected store.
C28_FrontendStoresConfigured ==
  (pc \in {"awaiting", "done"} /\ req.method = "POST" /\ SentByFrontend) =>
    LET selected == req.body.stores.a
    IN /\ \A i \in 1..Len(selected) : selected[i] \in StoreKeys
       /\ Len(tasks) = Len(selected)
       /\ SentSearchResponse => Len(res.body.stores) = Len(selected)

(***************************************************************************)
(* The favorites of one tab: a stored list is loaded, products are         *)
(* toggled, the list is cleared.                                           *)
(***************************************************************************)
\* what the server keeps while only the browser acts
ServerIdle ==
  /\ pc = "idle"
  /\ req = NoRequest
  /\ sanitizedQuery = <<>>
  /\ tasks = <<>>
  /\ searchPromises = <<>>
  /\ res = NoResponse
  /\ invoked = <<>>
  /\ outbound = 0
  /\ call = NoCall
  /\ clock = 0
  /\ created = <<>>

\* product links: one product page written plainly, with a query string,
\* in another case and with a trailing slash, and a second product page
ProductLinks ==
  { <<"h", "t", "t", "p", "s", ":", "/", "/", "s", ".", "c", "o", "/", "p", "1">>,
    <<"h", "t", "t", "p", "s", ":", "/", "/", "s", ".", "c", "o", "/", "p", "1", "?", "u", "=", "1">>,
    <<"h", "t", "t", "p", "s", ":", "/", "/", "s", ".", "c", "o", "/", "P", "1">>,
    <<"h", "t", "t", "p", "s", ":", "/", "/", "s", ".", "c", "o", "/", "p", "1", "/">>,
    <<"h", "t", "t", "p", "s", ":", "/", "/", "s", ".", "c", "o", "/", "p", "2">> }

\* the products a result grid shows: the id is the one a search of long ago
\* gave, or a fresh one
GridProducts == {[id |-> ProdId(n), link |-> link] : n \in {1, 9}, link \in ProductLinks}

\* the lists localStorage may hold at load: none, one favorite saved under
\* its `prod_` id before ids were derived from links, or such a favorite and
\* one saved since
StoredFavorites ==
  {<<>>}
    \cup {<<[id |-> ProdId(1), link |-> link]>> : link \in ProductLinks}
    \cup {addFavorite(<<[id |-> ProdId(1), link |-> link]>>, product) :
            link \in ProductLinks, product \in GridProducts}

InitFavorites ==
  /\ ServerIdle
  /\ favorites \in StoredFavorites
  /\ lastToggle = NoToggle
  /\ storage = Null
  /\ storedValue = [tab \in Tabs |-> LoadStoredValue(Null)]
  /\ events = [tab \in Tabs |-> <<>>]
  /\ writes = 0

\* toggleFavorite(product), and the render that follows it
ToggleFavorite(product) ==
  /\ favorites' = toggleFavorite(favorites, product)
  /\ lastToggle' = [t |-> "toggle", product |-> product,
                    was |-> isFavorite(favorites, product)]
  /\ UNCHANGED <<handlerVars, call, clock, created, storage, storedValue, events, writes>>

ToggleAny == \E product \in GridProducts : ToggleFavorite(product)

\* clearFavorites()
ClearFavorites ==
  /\ favorites # <<>>
  /\ favorites' = <<>>
  /\ lastToggle' = NoToggle
  /\ UNCHANGED <<handlerVars, call, clock, created, storage, storedValue, events, writes>>

NextFavorites ==
  \/ ToggleAny
  \/ ClearFavorites

SpecFavorites == InitFavorites /\ [][NextFavorites]_vars

\* C29: after toggleFavorite(p) and the render that follows, isFavorite(p) is
\* the negation of what it was before the call, whatever the stored list.
C29_ToggleFlips ==
  lastToggle.t = "toggle" =>
    isFavorite(favorites, lastToggle.product) = ~lastToggle.was

(***************************************************************************)
(* Two tabs on one localStorage key: each tab writes through setValue, and *)
(* the browser delivers a storage event for every change to the other tab. *)
(***************************************************************************)
\* most setValue calls in one behaviour
MaxWrites == 3

StorageKey == "selectedStores"

\* the values a tab writes
WrittenValues == {<<"asos">>, <<"hm">>, <<"asos", "hm">>}

\* the storage event of a setItem that changed the item
StorageEvent(key, newValue) == [key |-> key, newValue |-> newValue]

\* setValue(value) in a tab: the tab's state is set and the item written; the
\* browser queues a storage event for every other tab when the item changed
SetValue(tab, value) ==
  /\ writes < MaxWrites
  /\ writes' = writes + 1
  /\ storedValue' = [storedValue EXCEPT ![tab] = value]
  /\ storage' = JsonStringify(value)
  /\ events' =
       [other \in Tabs |->
          IF other # tab /\ storage # JsonStringify(value)
            THEN Append(events[other], StorageEvent(StorageKey, JsonStringify(value)))
          ELSE events[other]]
  /\ UNCHANGED <<handlerVars, call, clock, created, favorites, lastToggle>>

\* handleStorageChange(e) in a tab, for the oldest event queued for it
HandleStorageChange(tab) ==
  /\ events[tab] # <<>>
  /\ LET e == Head(events[tab])
     IN storedValue' =
          IF e.key = StorageKey /\ e.newValue # Null
            THEN [storedValue EXCEPT ![tab] = JsonParse(e.newValue)]
          ELSE storedValue
  /\ events' = [events EXCEPT ![tab] = Tail(events[tab])]
  /\ UNCHANGED <<handlerVars, call, clock, created, favorites, lastToggle, storage, writes>>

Write == \E tab \in Tabs, value \in WrittenValues : SetValue(tab, value)

Deliver == \E tab \in Tabs : HandleStorageChange(tab)

NextTabs ==
  \/ Write
  \/ Deliver

SpecTabs == Init /\ [][NextTabs]_vars

\* C30: once every queued storage event has been delivered, the value each
\* tab holds is the value stored in localStorage.
C30_TabsInSync ==
  (storage # Null /\ \A tab \in Tabs : events[tab] = <<>>) =>
    \A tab \in Tabs : storedValue[tab] = JsonParse(storage)

====
